---- MODULE Spec2Model ----
(***************************************************************************)
(* A model of the walb-tools daemons' per-volume orchestration.            *)
(*                                                                         *)
(*   Archive daemon (src/src/archive.hpp): one volume, its StateMachine,   *)
(*   ActionCounters, stop state, MetaDiffManager and volume directory,     *)
(*   driven by request workers that each run one protocol handler.         *)
(*                                                                         *)
(*   Storage daemon (src/src/storage.hpp): one volume and its handlers.    *)
(*                                                                         *)
(* A handler is cut into steps at the points where it releases or takes    *)
(* the volume mutex, or (for handlers that take no mutex) where it touches *)
(* shared state.  A critical section held under the recursive per-volume   *)
(* mutex is one atomic step.                                               *)
(***************************************************************************)
EXTENDS Integers, Sequences, FiniteSets, TLC

\* ------------------------------------------------------------------ bounds
MaxGid == 2         \* generation ids 0..MaxGid
MaxSizeLb == 2      \* largest volume size in logical blocks

\* The request workers that serve connections concurrently.
Conns == {1, 2}

\* --------------------------------------------------------------- constants
\* src/src/archive.hpp:17-20
aMerge == "Merge"
aApply == "Apply"
aRestore == "Restore"
aReplSync == "ReplSyncAsClient"

\* The volume id of the one modelled volume (a request parameter).
VolId == "vol0"

\* Stable and temporary states (src/src/archive_constant.hpp:10-26).
aClear == "Clear"
aSyncReady == "SyncReady"
aArchived == "Archived"
aStopped == "Stopped"
atInitVol == "InitVol"
atClearVol == "ClearVol"
atFullSync == "FullSync"
atHashSync == "HashSync"
atWdiffRecv == "WdiffRecv"
atStop == "Stop"
atStart == "Start"

StableStates == {aClear, aSyncReady, aArchived, aStopped}
TransientStates == {atInitVol, atClearVol, atFullSync, atHashSync, atWdiffRecv, atStop, atStart}

\* Faulty variant: the table also lets clear-vol start from Archived.
ArchiveTbl_ClearFromArchived ==
    { <<aClear, atInitVol>>, <<atInitVol, aSyncReady>>,
      <<aSyncReady, atClearVol>>, <<atClearVol, aClear>>,
      <<aSyncReady, atFullSync>>, <<atFullSync, aArchived>>,
      <<aArchived, atHashSync>>, <<atHashSync, aArchived>>,
      <<aArchived, atWdiffRecv>>, <<atWdiffRecv, aArchived>>,
      <<aArchived, atStop>>, <<atStop, aStopped>>,
      <<aStopped, atClearVol>>, <<aArchived, atClearVol>>,
      <<aStopped, atStart>>, <<atStart, aArchived>> }

\* The table ArchiveVolState registers (src/src/archive.hpp:39-60).
ArchiveTbl ==
    { <<aClear, atInitVol>>, <<atInitVol, aSyncReady>>,
      <<aSyncReady, atClearVol>>, <<atClearVol, aClear>>,
      <<aSyncReady, atFullSync>>, <<atFullSync, aArchived>>,
      <<aArchived, atHashSync>>, <<atHashSync, aArchived>>,
      <<aArchived, atWdiffRecv>>, <<atWdiffRecv, aArchived>>,
      <<aArchived, atStop>>, <<atStop, aStopped>>,
      <<aStopped, atClearVol>>,
      <<aStopped, atStart>>, <<atStart, aArchived>> }

\* Stop states.
NotStopping == "NotStopping"
GracefulStopping == "GracefulStopping"
ForceStopping == "ForceStopping"

\* ------------------------------------------------------------ meta algebra
\* MetaSnap (gidB, gidE), gidB <= gidE.
Snaps == { s \in (0..MaxGid) \X (0..MaxGid) : s[1] <= s[2] }
NoSnap == <<-1, -1>>

\* Clean-to-clean diffs a client may offer.
DiffInputs == { [snapB |-> <<b, b>>, snapE |-> <<e, e>>] : b \in 0..MaxGid, e \in 0..MaxGid }
                 \cap { d \in [snapB : Snaps, snapE : Snaps] : d.snapB[1] < d.snapE[1] }
NoDiff == [snapB |-> NoSnap, snapE |-> NoSnap]

\* MetaDiffManager::getLatestSnapshot: from the base snapshot, follow the
\* chain of applicable diffs as far as it goes.
RECURSIVE getLatestSnapshot(_, _)
getLatestSnapshot(snap, diffs) ==
    LET next == { d \in diffs : d.snapB = snap }
    IN  IF next = {} THEN snap
        ELSE LET d == CHOOSE x \in next : \A y \in next : x.snapE[1] >= y.snapE[1]
             IN  getLatestSnapshot(d.snapE, diffs \ next)

\* Relation of a candidate diff to the latest snapshot.
getRelation(latest, d) ==
    IF d.snapB = latest THEN "applicable-diff"
    ELSE IF d.snapE[1] <= latest[1] THEN "too-old-diff"
    ELSE IF d.snapB[1] > latest[1] THEN "too-new-diff"
    ELSE "not-applicable-diff"

\* ------------------------------------------------------------------- state
VARIABLES
    sm,         \* archive: StateMachine's current state
    stopState,  \* archive: ArchiveVolState::stopState
    forceQuit,  \* archive: ArchiveSingleton::forceQuit
    ac,         \* archive: ActionCounters, name -> count
    diffMgr,    \* archive: MetaDiffManager, the set of MetaDiffs held
    vol,        \* archive: the volume directory and the LV
    conn,       \* archive: what each request worker is doing
    ssm,        \* storage: StateMachine's current state
    stopping,   \* storage: StorageVolState::stopping
    forceStop,  \* storage: StorageVolState::forceStop
    svol,       \* storage: the volume directory
    sconn,      \* storage: what each request worker is doing
    fb,         \* full backup: the controller's request and the chunk loop
    tp,         \* log transport: the queues, the socket and the threads
    bq,         \* a BoundedQueue and the threads that use it
    vfs,        \* a VirtualFullScanner, its base image and its output
    rw,         \* a RequestWorker and its connection
    pool,       \* a ThreadRunnerPool, its tasks and its worker threads
    mtx,        \* a SeqMutexN and the threads that lock it
    cd,         \* a CompressedData under test
    ts,         \* a ThroughputStabilizer and its clock
    wv          \* a WldevVerifier and the log device it reads

avars == <<sm, stopState, forceQuit, ac, diffMgr, vol, conn>>
svars == <<ssm, stopping, forceStop, svol, sconn>>
xvars == <<mtx, cd, ts, wv>>
uvars == <<bq, vfs, rw, pool, xvars>>
notArchive == <<svars, fb, tp, uvars>>
notStorage == <<avars, fb, tp, uvars>>
notTransport == <<avars, svars, fb, uvars>>
vars == <<avars, svars, fb, tp, uvars>>

\* The utility classes are not in use.
ExtraIdle == mtx = <<>> /\ cd = <<>> /\ ts = <<>> /\ wv = <<>>
UtilIdle == bq = <<>> /\ vfs = <<>> /\ rw = <<>> /\ pool = <<>> /\ ExtraIdle

ActNames == {aMerge, aApply, aRestore, aReplSync, VolId}
ArchiveActions == {aMerge, aApply, aRestore, aReplSync}

\* The volume directory: dir (exists), state (the state file), uuid (0: no
\* uuid file), base (the base MetaState's snapshot, NoSnap: no base file),
\* wdiffs (the published *.wdiff files), lv (-1: no LV, else blocks written).
NoVol == [dir |-> FALSE, state |-> "none", uuid |-> 0, base |-> NoSnap, wdiffs |-> {}, lv |-> -1]
FreshVol == [NoVol EXCEPT !.dir = TRUE, !.state = aSyncReady]
SyncedVol(st) == [dir |-> TRUE, state |-> st, uuid |-> 1, base |-> <<0, 0>>, wdiffs |-> {}, lv |-> 1]

IdleConn == [h |-> "none", pc |-> "idle", from |-> "none", diff |-> NoDiff,
             rem |-> 0, bulk |-> 0, sent |-> <<>>]

\* A worker of the archive daemon records where its handler is; the storage
\* daemon is another process, which it leaves alone.
Set(c, r) == conn' = [conn EXCEPT ![c] = r] /\ UNCHANGED notArchive
Start(h, pc) == [IdleConn EXCEPT !.h = h, !.pc = pc]
\* The handler threw (Failed) or returned (Done), having written msgs; what is
\* left of it is its name, the transaction it had opened, what it wrote to
\* the socket and, when it returned, the diff it was offered.
Failed(r, msgs) ==
    [IdleConn EXCEPT !.h = r.h, !.pc = "failed", !.from = r.from, !.sent = r.sent \o msgs]
Done(r, msgs) ==
    [IdleConn EXCEPT !.h = r.h, !.pc = "done", !.from = r.from, !.diff = r.diff,
                     !.sent = r.sent \o msgs]

\* A request worker is free and the daemon still accepts connections.
Accept(c) == conn[c].pc = "idle" /\ ~forceQuit

\* ActionCounters::isAllZero over the four archive actions, as
\* verifyNoArchiveActionRunning asks it.
NoArchiveActionRunning == \A a \in ArchiveActions : ac[a] = 0

\* StateMachine: a change from `from` to `to` is possible when `from` is the
\* current state and the pair is registered.
CanChange(from, to) == sm = from /\ <<from, to>> \in ArchiveTbl

\* StateMachineTransaction::commit(to) moves the transient state to `to`; a
\* transaction destroyed uncommitted puts the state back to its `from`.
Rollback(r) == r.from
Commit(r, to) == IF <<sm, to>> \in ArchiveTbl THEN to ELSE Rollback(r)

\* ArchiveVolState::ArchiveVolState and initInner: the state machine starts in
\* the persisted state of an existing volume directory, else in Clear.
ArchiveInit ==
    /\ vol \in {NoVol, FreshVol, SyncedVol(aArchived), SyncedVol(aStopped)}
    /\ sm = IF vol.dir THEN vol.state ELSE aClear
    /\ diffMgr = vol.wdiffs
    /\ stopState = NotStopping
    /\ forceQuit = FALSE
    /\ ac = [a \in ActNames |-> 0]
    /\ conn = [c \in Conns |-> IdleConn]

\* -------------------------------------------------------------- init-vol
\* Faulty variant: init-vol opens its transaction without asking the state machine.
c2aInitVolServer_NoCheck(c) ==
    /\ Accept(c)
    /\ UNCHANGED <<stopState, forceQuit, ac, diffMgr, vol>>
    /\ IF NoArchiveActionRunning
       THEN /\ sm' = atInitVol
            /\ Set(c, [Start("init-vol", "body") EXCEPT !.from = aClear])
       ELSE /\ sm' = sm
            /\ Set(c, Failed(Start("init-vol", "idle"), <<>>))

c2aInitVolServer(c) ==
    /\ Accept(c)
    /\ UNCHANGED <<stopState, forceQuit, ac, diffMgr, vol>>
    /\ IF NoArchiveActionRunning /\ CanChange(aClear, atInitVol)
       THEN /\ sm' = atInitVol
            /\ Set(c, [Start("init-vol", "body") EXCEPT !.from = aClear])
       ELSE /\ sm' = sm
            /\ Set(c, Failed(Start("init-vol", "idle"), <<>>))

c2aInitVolBody(c) ==
    /\ conn[c].h = "init-vol" /\ conn[c].pc = "body"
    /\ UNCHANGED <<stopState, forceQuit, ac, diffMgr>>
    /\ \E ioOk \in BOOLEAN :
        IF ioOk /\ ~vol.dir
        THEN /\ vol' = FreshVol
             /\ sm' = Commit(conn[c], aSyncReady)
             /\ Set(c, Done(conn[c], <<"ack">>))
        ELSE /\ vol' = vol
             /\ sm' = Rollback(conn[c])
             /\ Set(c, Failed(conn[c], <<>>))

\* ------------------------------------------------------------- clear-vol
\* The transaction is opened from whatever the current state is.
c2aClearVolServer(c) ==
    /\ Accept(c)
    /\ UNCHANGED <<stopState, forceQuit, ac, diffMgr, vol>>
    /\ IF NoArchiveActionRunning /\ CanChange(sm, atClearVol)
       THEN /\ sm' = atClearVol
            /\ Set(c, [Start("clear-vol", "body") EXCEPT !.from = sm])
       ELSE /\ sm' = sm
            /\ Set(c, Failed(Start("clear-vol", "idle"), <<>>))

\* volInfo.clear() removes the LV and the volume directory with its wdiffs.
c2aClearVolBody(c) ==
    /\ conn[c].h = "clear-vol" /\ conn[c].pc = "body"
    /\ UNCHANGED <<stopState, forceQuit, ac>>
    /\ \E ioOk \in BOOLEAN :
        IF ioOk
        THEN /\ vol' = NoVol
             /\ diffMgr' = {}
             /\ sm' = Commit(conn[c], aClear)
             /\ Set(c, Done(conn[c], <<"ack">>))
        ELSE /\ UNCHANGED <<vol, diffMgr>>
             /\ sm' = Rollback(conn[c])
             /\ Set(c, Failed(conn[c], <<>>))

\* ------------------------------------------------------------------ start
c2aStartServer(c) ==
    /\ Accept(c)
    /\ UNCHANGED <<stopState, forceQuit, ac, diffMgr, vol>>
    /\ IF NoArchiveActionRunning /\ CanChange(aStopped, atStart)
       THEN /\ sm' = atStart
            /\ Set(c, [Start("start", "body") EXCEPT !.from = aStopped])
       ELSE /\ sm' = sm
            /\ Set(c, Failed(Start("start", "idle"), <<>>))

\* Faulty variant: start commits before it has checked the persisted state.
c2aStartBody_CommitFirst(c) ==
    /\ conn[c].h = "start" /\ conn[c].pc = "body"
    /\ UNCHANGED <<stopState, forceQuit, ac, diffMgr>>
    /\ \E ioOk \in BOOLEAN :
        IF ioOk /\ vol.dir /\ vol.state = aStopped
        THEN /\ vol' = [vol EXCEPT !.state = aArchived]
             /\ sm' = Commit(conn[c], aArchived)
             /\ Set(c, Done(conn[c], <<"ack">>))
        ELSE /\ vol' = vol
             /\ sm' = Commit(conn[c], aArchived)
             /\ Set(c, Failed(conn[c], <<>>))

c2aStartBody(c) ==
    /\ conn[c].h = "start" /\ conn[c].pc = "body"
    /\ UNCHANGED <<stopState, forceQuit, ac, diffMgr>>
    /\ \E ioOk \in BOOLEAN :
        IF ioOk /\ vol.dir /\ vol.state = aStopped
        THEN /\ vol' = [vol EXCEPT !.state = aArchived]
             /\ sm' = Commit(conn[c], aArchived)
             /\ Set(c, Done(conn[c], <<"ack">>))
        ELSE /\ vol' = vol
             /\ sm' = Rollback(conn[c])
             /\ Set(c, Failed(conn[c], <<>>))

\* ------------------------------------------------------------------- stop
\* The Ack is sent first; then the Stopper claims the stop state.
c2aStopServer(c) ==
    /\ Accept(c)
    /\ UNCHANGED <<sm, forceQuit, ac, diffMgr, vol>>
    /\ \E isForce \in BOOLEAN :
        IF stopState = NotStopping
        THEN /\ stopState' = IF isForce THEN ForceStopping ELSE GracefulStopping
             /\ Set(c, [Start("stop", "wait") EXCEPT !.sent = <<"ack">>])
        ELSE /\ stopState' = stopState
             /\ Set(c, Done(Start("stop", "idle"), <<"ack">>))

\* waitUntil's predicate, evaluated under the mutex.
StopCanGo ==
    /\ \A a \in {aMerge, aApply, aRestore, aReplSync} : ac[a] = 0
    /\ sm \in {aClear, aSyncReady, aArchived, aStopped}

\* Faulty variant: the handler returns whatever state it finds.
c2aStopWait_Return(c) ==
    /\ conn[c].h = "stop" /\ conn[c].pc = "wait"
    /\ StopCanGo
    /\ UNCHANGED <<sm, forceQuit, ac, diffMgr, vol>>
    /\ stopState' = NotStopping
    /\ Set(c, Done(conn[c], <<>>))

\* From the predicate turning true to ul.unlock(): one critical section.
c2aStopWait(c) ==
    /\ conn[c].h = "stop" /\ conn[c].pc = "wait"
    /\ StopCanGo
    /\ UNCHANGED <<forceQuit, ac, diffMgr, vol>>
    /\ IF sm # aArchived
       THEN /\ sm' = sm
            /\ stopState' = NotStopping
            /\ Set(c, Done(conn[c], <<>>))
       ELSE /\ sm' = atStop
            /\ stopState' = stopState
            /\ Set(c, [conn[c] EXCEPT !.pc = "body", !.from = aArchived])

\* Faulty variant: the transaction commits without the state file written.
c2aStopBody_NoSetState(c) ==
    /\ conn[c].h = "stop" /\ conn[c].pc = "body"
    /\ UNCHANGED <<forceQuit, ac, diffMgr, vol>>
    /\ stopState' = NotStopping
    /\ sm' = Commit(conn[c], aStopped)
    /\ Set(c, Done(conn[c], <<>>))

c2aStopBody(c) ==
    /\ conn[c].h = "stop" /\ conn[c].pc = "body"
    /\ UNCHANGED <<forceQuit, ac, diffMgr>>
    /\ stopState' = NotStopping
    /\ \E ioOk \in BOOLEAN :
        IF ioOk /\ vol.dir /\ vol.state = aArchived
        THEN /\ vol' = [vol EXCEPT !.state = aStopped]
             /\ sm' = Commit(conn[c], aStopped)
             /\ Set(c, Done(conn[c], <<>>))
        ELSE /\ vol' = vol
             /\ sm' = Rollback(conn[c])
             /\ Set(c, Failed(conn[c], <<>>))

\* -------------------------------------------------------------- full-sync
Min(a, b) == IF a < b THEN a ELSE b

\* Faulty variant: a bulkLb of zero is let through.
x2aDirtyFullSyncServer_ZeroBulk(c) ==
    /\ Accept(c)
    /\ UNCHANGED <<sm, stopState, forceQuit, ac, diffMgr, vol>>
    /\ \E hostOk \in BOOLEAN, sizeLb \in 1..MaxSizeLb, bulkLb \in 0..MaxSizeLb :
        IF ~hostOk
        THEN Set(c, Failed(Start("full-sync", "idle"), <<>>))
        ELSE IF FALSE
        THEN Set(c, [Failed(Start("full-sync", "idle"), <<>>) EXCEPT !.rem = sizeLb])
        ELSE IF ~NoArchiveActionRunning
        THEN Set(c, Failed(Start("full-sync", "idle"), <<>>))
        ELSE IF stopState # NotStopping
        THEN Set(c, Failed(Start("full-sync", "idle"), <<"err">>))
        ELSE Set(c, [Start("full-sync", "tran") EXCEPT !.rem = sizeLb, !.bulk = bulkLb])

\* Parameters are read and checked, then the action counters and the stop
\* state are read (no mutex is taken).  What is left of a request thrown out
\* for its bulkLb of zero keeps the size it asked for.
x2aDirtyFullSyncServer(c) ==
    /\ Accept(c)
    /\ UNCHANGED <<sm, stopState, forceQuit, ac, diffMgr, vol>>
    /\ \E hostOk \in BOOLEAN, sizeLb \in 1..MaxSizeLb, bulkLb \in 0..MaxSizeLb :
        IF ~hostOk
        THEN Set(c, Failed(Start("full-sync", "idle"), <<>>))
        ELSE IF bulkLb = 0
        THEN Set(c, [Failed(Start("full-sync", "idle"), <<>>) EXCEPT !.rem = sizeLb])
        ELSE IF ~NoArchiveActionRunning
        THEN Set(c, Failed(Start("full-sync", "idle"), <<>>))
        ELSE IF stopState # NotStopping
        THEN Set(c, Failed(Start("full-sync", "idle"), <<"err">>))
        ELSE Set(c, [Start("full-sync", "tran") EXCEPT !.rem = sizeLb, !.bulk = bulkLb])

x2aFullSyncTran(c) ==
    /\ conn[c].h = "full-sync" /\ conn[c].pc = "tran"
    /\ UNCHANGED <<stopState, forceQuit, ac, diffMgr, vol>>
    /\ IF CanChange(aSyncReady, atFullSync)
       THEN /\ sm' = atFullSync
            /\ Set(c, [conn[c] EXCEPT !.pc = "create", !.from = aSyncReady])
       ELSE /\ sm' = sm
            /\ Set(c, Failed(conn[c], <<>>))

x2aFullSyncCreate(c) ==
    /\ conn[c].h = "full-sync" /\ conn[c].pc = "create"
    /\ UNCHANGED <<stopState, forceQuit, ac, diffMgr>>
    /\ \E ioOk \in BOOLEAN :
        IF ioOk /\ vol.dir /\ vol.state = aSyncReady
        THEN /\ vol' = [vol EXCEPT !.lv = 0]
             /\ sm' = sm
             /\ Set(c, [conn[c] EXCEPT !.pc = "recv", !.sent = <<"ok">>])
        ELSE /\ vol' = vol
             /\ sm' = Rollback(conn[c])
             /\ Set(c, Failed(conn[c], <<>>))

\* A chunk as it comes from the socket: encSize, whether snappy can read the
\* uncompressed length from it, that length (in logical blocks), and whether
\* the bytes then uncompress.
ChunkInputs ==
    [encSize : {0, 1}, hasLength : BOOLEAN, decLb : 0..MaxSizeLb, uncompresses : BOOLEAN]

\* The checks a chunk passes before bd.write: encSize is not zero, the length
\* can be read and equals the expected size, the bytes uncompress.
ChunkValid(ch, lb) ==
    /\ ch.encSize # 0
    /\ ch.hasLength
    /\ ch.decLb * 512 = lb * 512
    /\ ch.uncompresses

\* Faulty variant: the receive loop does not poll for a forced stop.
x2aFullSyncRecv_NoPoll(c) ==
    /\ conn[c].h = "full-sync" /\ conn[c].pc = "recv"
    /\ conn[c].rem > 0
    /\ UNCHANGED <<stopState, forceQuit, ac, diffMgr>>
    /\ IF FALSE
       THEN /\ vol' = vol
            /\ sm' = Rollback(conn[c])
            /\ Set(c, Done(conn[c], <<>>))
       ELSE \E ch \in ChunkInputs :
            LET lb == Min(conn[c].bulk, conn[c].rem) % 65536 IN
            IF ChunkValid(ch, lb)
            THEN /\ vol' = [vol EXCEPT !.lv = @ + lb]
                 /\ sm' = sm
                 /\ Set(c, [conn[c] EXCEPT !.rem = @ - lb])
            ELSE /\ vol' = vol
                 /\ sm' = Rollback(conn[c])
                 /\ Set(c, Failed(conn[c], <<>>))

\* Faulty variant: the chunk is written to the LV before it is validated.
x2aFullSyncRecv_WriteFirst(c) ==
    /\ conn[c].h = "full-sync" /\ conn[c].pc = "recv"
    /\ conn[c].rem > 0
    /\ UNCHANGED <<stopState, forceQuit, ac, diffMgr>>
    /\ IF stopState = ForceStopping \/ forceQuit
       THEN /\ vol' = vol
            /\ sm' = Rollback(conn[c])
            /\ Set(c, Done(conn[c], <<>>))
       ELSE \E ch \in ChunkInputs :
            LET lb == Min(conn[c].bulk, conn[c].rem) % 65536 IN
            IF ChunkValid(ch, lb)
            THEN /\ vol' = [vol EXCEPT !.lv = @ + lb]
                 /\ sm' = sm
                 /\ Set(c, [conn[c] EXCEPT !.rem = @ - lb])
            ELSE /\ vol' = [vol EXCEPT !.lv = @ + lb]
                 /\ sm' = Rollback(conn[c])
                 /\ Set(c, Failed(conn[c], <<>>))

\* One pass of the receive loop: the force-stop poll, then one chunk.
x2aFullSyncRecv(c) ==
    /\ conn[c].h = "full-sync" /\ conn[c].pc = "recv"
    /\ conn[c].rem > 0
    /\ UNCHANGED <<stopState, forceQuit, ac, diffMgr>>
    /\ IF stopState = ForceStopping \/ forceQuit
       THEN /\ vol' = vol
            /\ sm' = Rollback(conn[c])
            /\ Set(c, Done(conn[c], <<>>))
       ELSE \E ch \in ChunkInputs :
            LET lb == Min(conn[c].bulk, conn[c].rem) % 65536 IN
            IF ChunkValid(ch, lb)
            THEN /\ vol' = [vol EXCEPT !.lv = @ + lb]
                 /\ sm' = sm
                 /\ Set(c, [conn[c] EXCEPT !.rem = @ - lb])
            ELSE /\ vol' = vol
                 /\ sm' = Rollback(conn[c])
                 /\ Set(c, Failed(conn[c], <<>>))

\* Faulty variant: the commit and the Ack do not wait for the persisting to succeed.
x2aFullSyncCommit_AckAnyway(c) ==
    /\ conn[c].h = "full-sync" /\ conn[c].pc = "recv"
    /\ conn[c].rem = 0
    /\ UNCHANGED <<stopState, forceQuit, ac, diffMgr>>
    /\ \E gids \in {<<0, 0>>, <<0, 1>>}, failAt \in {"none", "gids", "uuid", "state"} :
        LET v1 == IF failAt = "gids" THEN vol ELSE [vol EXCEPT !.base = gids]
            v2 == IF failAt \in {"gids", "uuid"} THEN v1 ELSE [v1 EXCEPT !.uuid = 1]
            v3 == IF failAt = "none" THEN [v2 EXCEPT !.state = aArchived] ELSE v2
        IN  /\ vol' = v3
            /\ IF TRUE
               THEN /\ sm' = Commit(conn[c], aArchived)
                    /\ Set(c, Done(conn[c], <<"ack">>))
               ELSE /\ sm' = Rollback(conn[c])
                    /\ Set(c, Failed(conn[c], <<>>))

\* After the loop: the gids are read, then MetaState, uuid and state are
\* persisted in this order, the transaction commits and the Ack is sent.
x2aFullSyncCommit(c) ==
    /\ conn[c].h = "full-sync" /\ conn[c].pc = "recv"
    /\ conn[c].rem = 0
    /\ UNCHANGED <<stopState, forceQuit, ac, diffMgr>>
    /\ \E gids \in {<<0, 0>>, <<0, 1>>}, failAt \in {"none", "gids", "uuid", "state"} :
        LET v1 == IF failAt = "gids" THEN vol ELSE [vol EXCEPT !.base = gids]
            v2 == IF failAt \in {"gids", "uuid"} THEN v1 ELSE [v1 EXCEPT !.uuid = 1]
            v3 == IF failAt = "none" THEN [v2 EXCEPT !.state = aArchived] ELSE v2
        IN  /\ vol' = v3
            /\ IF failAt = "none"
               THEN /\ sm' = Commit(conn[c], aArchived)
                    /\ Set(c, Done(conn[c], <<"ack">>))
               ELSE /\ sm' = Rollback(conn[c])
                    /\ Set(c, Failed(conn[c], <<>>))

\* ---------------------------------------------------------------- restore
\* Faulty variant: restore does not look at the stop state.
c2aRestoreServer_NoStopCheck(c) ==
    /\ Accept(c)
    /\ UNCHANGED <<sm, stopState, forceQuit, diffMgr, vol>>
    /\ IF FALSE
       THEN /\ ac' = ac
            /\ Set(c, Failed(Start("restore", "idle"), <<>>))
       ELSE IF sm \notin {aArchived, atHashSync, atWdiffRecv}
       THEN /\ ac' = ac
            /\ Set(c, Failed(Start("restore", "idle"), <<"err">>))
       ELSE /\ ac' = [ac EXCEPT ![VolId] = @ + 1]
            /\ Set(c, Start("restore", "run"))

\* The action token is registered under the name the handler passes: volId.
c2aRestoreServer(c) ==
    /\ Accept(c)
    /\ UNCHANGED <<sm, stopState, forceQuit, diffMgr, vol>>
    /\ IF stopState # NotStopping
       THEN /\ ac' = ac
            /\ Set(c, Failed(Start("restore", "idle"), <<>>))
       ELSE IF sm \notin {aArchived, atHashSync, atWdiffRecv}
       THEN /\ ac' = ac
            /\ Set(c, Failed(Start("restore", "idle"), <<"err">>))
       ELSE /\ ac' = [ac EXCEPT ![VolId] = @ + 1]
            /\ Set(c, Start("restore", "run"))

c2aRestoreBody(c) ==
    /\ conn[c].h = "restore" /\ conn[c].pc = "run"
    /\ UNCHANGED <<sm, stopState, forceQuit, diffMgr, vol>>
    /\ ac' = [ac EXCEPT ![VolId] = @ - 1]
    /\ \E ok \in BOOLEAN :
        IF ok THEN Set(c, Done(conn[c], <<"ok">>))
        ELSE Set(c, Failed(conn[c], <<"err">>))

\* -------------------------------------------------------- reload-metadata
c2aReloadMetadataServer(c) ==
    /\ Accept(c)
    /\ UNCHANGED <<sm, stopState, forceQuit, ac, vol>>
    /\ IF stopState = NotStopping /\ NoArchiveActionRunning /\ vol.dir
       THEN /\ diffMgr' = vol.wdiffs
            /\ Set(c, Done(Start("reload-metadata", "idle"), <<"ack">>))
       ELSE /\ diffMgr' = diffMgr
            /\ Set(c, Failed(Start("reload-metadata", "idle"), <<>>))

\* --------------------------------------------------------- wdiff-transfer
\* Faulty variant: the relation of the diff to the latest snapshot is not checked.
WdiffTransferReply_NoRelation(clientType, uuid, d) ==
    IF clientType \notin {"proxy", "archive"} THEN "throw"
    ELSE IF stopState # NotStopping THEN "throw"
    ELSE IF ~vol.dir THEN "archive-not-found"
    ELSE IF sm = aStopped THEN "stopped"
    ELSE IF clientType = "proxy" /\ vol.uuid = 0 THEN "throw"
    ELSE IF clientType = "proxy" /\ vol.uuid # uuid THEN "different-uuid"
    ELSE IF vol.base = NoSnap THEN "throw"
    ELSE LET rel == getRelation(getLatestSnapshot(vol.base, diffMgr), d)
         IN  IF rel = "too-old-diff" THEN rel ELSE "ok"

\* What the handler writes back after its checks, "throw" when it throws
\* before writing anything.
WdiffTransferReply(clientType, uuid, d) ==
    IF clientType \notin {"proxy", "archive"} THEN "throw"
    ELSE IF stopState # NotStopping THEN "throw"
    ELSE IF ~vol.dir THEN "archive-not-found"
    ELSE IF sm = aStopped THEN "stopped"
    ELSE IF clientType = "proxy" /\ vol.uuid = 0 THEN "throw"
    ELSE IF clientType = "proxy" /\ vol.uuid # uuid THEN "different-uuid"
    ELSE IF vol.base = NoSnap THEN "throw"
    ELSE LET rel == getRelation(getLatestSnapshot(vol.base, diffMgr), d)
         IN  IF rel # "applicable-diff" THEN rel ELSE "ok"

\* From the lock to ul.unlock(): checks, reply, and the transaction's begin.
x2aWdiffTransferServer(c) ==
    /\ Accept(c)
    /\ UNCHANGED <<stopState, forceQuit, ac, diffMgr, vol>>
    /\ \E clientType \in {"proxy", "archive", "bad"}, uuid \in {1, 2}, d \in DiffInputs :
        LET msg == WdiffTransferReply(clientType, uuid, d)
            r == [Start("wdiff-transfer", "idle") EXCEPT !.diff = d]
        IN  IF msg = "throw"
            THEN sm' = sm /\ Set(c, Failed(r, <<>>))
            ELSE IF msg # "ok"
            THEN sm' = sm /\ Set(c, Done(r, <<msg>>))
            ELSE IF CanChange(aArchived, atWdiffRecv)
            THEN /\ sm' = atWdiffRecv
                 /\ Set(c, [r EXCEPT !.pc = "recv", !.from = aArchived, !.sent = <<"ok">>])
            ELSE sm' = sm /\ Set(c, Failed(r, <<"ok">>))

\* Faulty variant: the diff enters the manager before its file has its final name.
x2aWdiffTransferRecv_AddFirst(c) ==
    /\ conn[c].h = "wdiff-transfer" /\ conn[c].pc = "recv"
    /\ UNCHANGED <<stopState, forceQuit, ac>>
    /\ \E ioOk \in BOOLEAN :
        IF ioOk
        THEN /\ vol' = vol
             /\ diffMgr' = diffMgr \cup {conn[c].diff}
             /\ sm' = sm
             /\ Set(c, [conn[c] EXCEPT !.pc = "commit"])
        ELSE /\ vol' = vol
             /\ diffMgr' = diffMgr
             /\ sm' = Rollback(conn[c])
             /\ Set(c, Failed(conn[c], <<>>))

\* The diff is written to a temp file which is renamed to its final name; a
\* failure before the rename leaves no file.
x2aWdiffTransferRecv(c) ==
    /\ conn[c].h = "wdiff-transfer" /\ conn[c].pc = "recv"
    /\ UNCHANGED <<stopState, forceQuit, ac, diffMgr>>
    /\ \E ioOk \in BOOLEAN :
        IF ioOk
        THEN /\ vol' = [vol EXCEPT !.wdiffs = @ \cup {conn[c].diff}]
             /\ sm' = sm
             /\ Set(c, [conn[c] EXCEPT !.pc = "commit"])
        ELSE /\ vol' = vol
             /\ sm' = Rollback(conn[c])
             /\ Set(c, Failed(conn[c], <<>>))

\* ul.lock(); diffMgr.add(diff); tran.commit(aArchived); then the Ack.
x2aWdiffTransferCommit(c) ==
    /\ conn[c].h = "wdiff-transfer" /\ conn[c].pc = "commit"
    /\ UNCHANGED <<stopState, forceQuit, ac, vol>>
    /\ IF conn[c].diff \in diffMgr
       THEN /\ diffMgr' = diffMgr
            /\ sm' = Rollback(conn[c])
            /\ Set(c, Failed(conn[c], <<>>))
       ELSE /\ diffMgr' = diffMgr \cup {conn[c].diff}
            /\ sm' = Commit(conn[c], aArchived)
            /\ Set(c, Done(conn[c], <<"ack">>))

\* ------------------------------------------------------------ environment
\* A merge or apply handler takes its action token when the volume is not
\* stopping and no archive action is running, and gives it back at its end.
BeginAction(a) ==
    /\ ~forceQuit
    /\ stopState = NotStopping
    /\ NoArchiveActionRunning
    /\ ac' = [ac EXCEPT ![a] = @ + 1]
    /\ UNCHANGED <<sm, stopState, forceQuit, diffMgr, vol, conn, notArchive>>

EndAction(a) ==
    /\ ac[a] > 0
    /\ ac' = [ac EXCEPT ![a] = @ - 1]
    /\ UNCHANGED <<sm, stopState, forceQuit, diffMgr, vol, conn, notArchive>>

\* The daemon is told to quit at once.
SetForceQuit ==
    /\ ~forceQuit
    /\ forceQuit' = TRUE
    /\ UNCHANGED <<sm, stopState, ac, diffMgr, vol, conn, notArchive>>

\* RequestWorker closes the socket when the handler has returned or thrown.
CloseConn(c) ==
    /\ conn[c].pc \in {"done", "failed"}
    /\ Set(c, IdleConn)
    /\ UNCHANGED <<sm, stopState, forceQuit, ac, diffMgr, vol>>

Next ==
    \/ \E c \in Conns :
        \/ c2aInitVolServer(c)
        \/ c2aInitVolBody(c)
        \/ c2aClearVolServer(c)
        \/ c2aClearVolBody(c)
        \/ c2aStartServer(c)
        \/ c2aStartBody(c)
        \/ c2aStopServer(c)
        \/ c2aStopWait(c)
        \/ c2aStopBody(c)
        \/ x2aDirtyFullSyncServer(c)
        \/ x2aFullSyncTran(c)
        \/ x2aFullSyncCreate(c)
        \/ x2aFullSyncRecv(c)
        \/ x2aFullSyncCommit(c)
        \/ c2aRestoreServer(c)
        \/ c2aRestoreBody(c)
        \/ c2aReloadMetadataServer(c)
        \/ x2aWdiffTransferServer(c)
        \/ x2aWdiffTransferRecv(c)
        \/ x2aWdiffTransferCommit(c)
        \/ CloseConn(c)
    \/ \E a \in {aMerge, aApply} : BeginAction(a) \/ EndAction(a)
    \/ SetForceQuit

\* The archive daemon serving start, stop and wdiff-transfer while merges and
\* applies come and go.
StopNext ==
    \/ \E c \in Conns :
        \/ c2aStartServer(c)
        \/ c2aStartBody(c)
        \/ c2aStopServer(c)
        \/ c2aStopWait(c)
        \/ c2aStopBody(c)
        \/ x2aWdiffTransferServer(c)
        \/ x2aWdiffTransferRecv(c)
        \/ x2aWdiffTransferCommit(c)
        \/ CloseConn(c)
    \/ \E a \in {aMerge, aApply} : BeginAction(a) \/ EndAction(a)


\* ================================================================ storage
\* States of a storage volume, as StorageVolState registers them
\* (src/src/storage.hpp:17-45).
sClear == "Clear"
sSyncReady == "SyncReady"
sStopped == "Stopped"
sMaster == "Master"
sSlave == "Slave"
stInitVol == "InitVol"
stClearVol == "ClearVol"
stStartSlave == "StartSlave"
stStopSlave == "StopSlave"
stWlogRemove == "WlogRemove"
stFullSync == "FullSync"
stHashSync == "HashSync"
stReset == "Reset"
stStartMaster == "StartMaster"
stStopMaster == "StopMaster"
stWlogSend == "WlogSend"

StorageTbl ==
    { <<sClear, stInitVol>>, <<stInitVol, sSyncReady>>,
      <<sSyncReady, stClearVol>>, <<stClearVol, sClear>>,
      <<sSyncReady, stStartSlave>>, <<stStartSlave, sSlave>>,
      <<sSlave, stStopSlave>>, <<stStopSlave, sSyncReady>>,
      <<sSlave, stWlogRemove>>, <<stWlogRemove, sSlave>>,
      <<sSyncReady, stFullSync>>, <<stFullSync, sStopped>>,
      <<sSyncReady, stHashSync>>, <<stHashSync, sStopped>>,
      <<sStopped, stReset>>, <<stReset, sSyncReady>>,
      <<sStopped, stStartMaster>>, <<stStartMaster, sMaster>>,
      <<sMaster, stStopMaster>>, <<stStopMaster, sStopped>>,
      <<sMaster, stWlogSend>>, <<stWlogSend, sMaster>> }

\* How many one-second sleeps c2sStopServer allows itself (DEFAULT_TIMEOUT).
StopTimeout == 1

SNoVol == [dir |-> FALSE, state |-> "none"]
SVol(st) == [dir |-> TRUE, state |-> st]

\* A worker of the storage daemon records where its handler is; the archive
\* daemon is another process, which it leaves alone.
SSet(c, r) == sconn' = [sconn EXCEPT ![c] = r] /\ UNCHANGED notStorage
SAccept(c) == sconn[c].pc = "idle"
SCanChange(from, to) == ssm = from /\ <<from, to>> \in StorageTbl
SCommit(r, to) == IF <<ssm, to>> \in StorageTbl THEN to ELSE Rollback(r)

\* StorageVolState::StorageVolState and getStorageVolState: Clear, or the
\* persisted state of an existing volume directory.
StorageInit ==
    /\ svol \in {SNoVol, SVol(sSyncReady), SVol(sMaster), SVol(sSlave)}
    /\ ssm = IF svol.dir THEN svol.state ELSE sClear
    /\ stopping = FALSE
    /\ forceStop = FALSE
    /\ sconn = [c \in Conns |-> IdleConn]

StorageIdle ==
    /\ svol = SNoVol
    /\ ssm = sClear
    /\ stopping = FALSE
    /\ forceStop = FALSE
    /\ sconn = [c \in Conns |-> IdleConn]

ArchiveIdle ==
    /\ vol = NoVol
    /\ sm = aClear
    /\ diffMgr = {}
    /\ stopState = NotStopping
    /\ forceQuit = FALSE
    /\ ac = [a \in ActNames |-> 0]
    /\ conn = [c \in Conns |-> IdleConn]

\* -------------------------------------------------------------- init-vol
c2sInitVolServer(c) ==
    /\ SAccept(c)
    /\ UNCHANGED <<stopping, forceStop, svol>>
    /\ IF SCanChange(sClear, stInitVol)
       THEN /\ ssm' = stInitVol
            /\ SSet(c, [Start("init-vol", "body") EXCEPT !.from = sClear])
       ELSE /\ ssm' = ssm
            /\ SSet(c, Failed(Start("init-vol", "idle"), <<>>))

c2sInitVolBody(c) ==
    /\ sconn[c].h = "init-vol" /\ sconn[c].pc = "body"
    /\ UNCHANGED <<stopping, forceStop>>
    /\ \E ioOk \in BOOLEAN :
        IF ioOk /\ ~svol.dir
        THEN /\ svol' = SVol(sSyncReady)
             /\ ssm' = SCommit(sconn[c], sSyncReady)
             /\ SSet(c, Done(sconn[c], <<"ack">>))
        ELSE /\ svol' = svol
             /\ ssm' = Rollback(sconn[c])
             /\ SSet(c, Failed(sconn[c], <<>>))

\* ------------------------------------------------------------- clear-vol
c2sClearVolServer(c) ==
    /\ SAccept(c)
    /\ UNCHANGED <<stopping, forceStop, svol>>
    /\ IF SCanChange(sSyncReady, stClearVol)
       THEN /\ ssm' = stClearVol
            /\ SSet(c, [Start("clear-vol", "body") EXCEPT !.from = sSyncReady])
       ELSE /\ ssm' = ssm
            /\ SSet(c, Failed(Start("clear-vol", "idle"), <<>>))

\* After the commit the volume's entry is dropped from the state map; the
\* next request finds a new one, Clear for the removed directory.
c2sClearVolBody(c) ==
    /\ sconn[c].h = "clear-vol" /\ sconn[c].pc = "body"
    /\ UNCHANGED <<stopping, forceStop>>
    /\ \E ioOk \in BOOLEAN :
        IF ioOk
        THEN /\ svol' = SNoVol
             /\ ssm' = SCommit(sconn[c], sClear)
             /\ SSet(c, Done(sconn[c], <<"ack">>))
        ELSE /\ svol' = svol
             /\ ssm' = Rollback(sconn[c])
             /\ SSet(c, Failed(sconn[c], <<>>))

\* ------------------------------------------------------------------ start
c2sStartServer(c) ==
    /\ SAccept(c)
    /\ UNCHANGED <<stopping, forceStop, svol>>
    /\ \E isMaster \in BOOLEAN :
        LET from == IF isMaster THEN sStopped ELSE sSyncReady
            via == IF isMaster THEN stStartMaster ELSE stStartSlave
        IN  IF SCanChange(from, via)
            THEN /\ ssm' = via
                 /\ SSet(c, [Start("start", "body") EXCEPT !.from = from])
            ELSE /\ ssm' = ssm
                 /\ SSet(c, Failed(Start("start", "idle"), <<>>))

c2sStartBody(c) ==
    /\ sconn[c].h = "start" /\ sconn[c].pc = "body"
    /\ UNCHANGED <<stopping, forceStop>>
    /\ \E ioOk \in BOOLEAN :
        LET to == IF sconn[c].from = sStopped THEN sMaster ELSE sSlave IN
        IF ioOk /\ svol.dir
        THEN /\ svol' = [svol EXCEPT !.state = to]
             /\ ssm' = SCommit(sconn[c], to)
             /\ SSet(c, Done(sconn[c], <<"ack">>))
        ELSE /\ svol' = svol
             /\ ssm' = Rollback(sconn[c])
             /\ SSet(c, Failed(sconn[c], <<>>))

\* ------------------------------------------------------------------- stop
\* The Stopper raises the volume's stop flags for the life of the handler.
c2sStopServer(c) ==
    /\ SAccept(c)
    /\ UNCHANGED <<ssm, svol>>
    /\ \E isForce \in BOOLEAN :
        /\ stopping' = TRUE
        /\ forceStop' = isForce
        /\ SSet(c, Start("stop", "loop"))

\* One pass of the for (;;) loop that waits for the tasks to stop.  Its only
\* exit is the timeout's throw: when the state is not a task state the pass
\* ends without a break and the loop goes round again with nothing changed,
\* so the code after the loop (the transition and the Ack) is never reached.
c2sStopLoop(c) ==
    /\ sconn[c].h = "stop" /\ sconn[c].pc = "loop"
    /\ UNCHANGED <<ssm, svol>>
    /\ IF sconn[c].rem > StopTimeout
       THEN /\ stopping' = FALSE
            /\ forceStop' = FALSE
            /\ SSet(c, Failed(sconn[c], <<>>))
       ELSE IF ssm \in {stFullSync, stHashSync, stWlogSend, stWlogRemove}
       THEN /\ UNCHANGED <<stopping, forceStop>>
            /\ SSet(c, [sconn[c] EXCEPT !.rem = @ + 1])
       ELSE UNCHANGED <<stopping, forceStop, sconn, notStorage>>

\* -------------------------------------------------------------- full-sync
c2sFullSyncServer(c) ==
    /\ SAccept(c)
    /\ UNCHANGED <<ssm, stopping, forceStop, svol>>
    /\ \E bulkLb \in 0..MaxSizeLb :
        IF stopping
        THEN SSet(c, Failed(Start("full-sync", "idle"), <<"err">>))
        ELSE SSet(c, [Start("full-sync", "tran") EXCEPT !.bulk = bulkLb])

c2sFullSyncTran(c) ==
    /\ sconn[c].h = "full-sync" /\ sconn[c].pc = "tran"
    /\ UNCHANGED <<stopping, forceStop, svol>>
    /\ IF SCanChange(sSyncReady, stFullSync)
       THEN /\ ssm' = stFullSync
            /\ SSet(c, [sconn[c] EXCEPT !.pc = "negotiate", !.from = sSyncReady])
       ELSE /\ ssm' = ssm
            /\ SSet(c, Failed(sconn[c], <<>>))

\* The wlog is reset, the device size read, and the request sent to the
\* archive, which answers "ok" only for a bulkLb that is not zero.
c2sFullSyncNegotiate(c) ==
    /\ sconn[c].h = "full-sync" /\ sconn[c].pc = "negotiate"
    /\ UNCHANGED <<stopping, forceStop, svol>>
    /\ \E sizeLb \in 1..MaxSizeLb, res \in {"ok", "err"} :
        IF res = "ok" /\ sconn[c].bulk # 0 /\ svol.dir
        THEN /\ ssm' = ssm
             /\ SSet(c, [sconn[c] EXCEPT !.pc = "send", !.rem = sizeLb, !.sent = <<"ok">>])
        ELSE /\ ssm' = Rollback(sconn[c])
             /\ SSet(c, Failed(sconn[c], <<"err">>))

\* One pass of the send loop: the force-stop poll, then one chunk.
c2sFullSyncSend(c) ==
    /\ sconn[c].h = "full-sync" /\ sconn[c].pc = "send"
    /\ sconn[c].rem > 0
    /\ UNCHANGED <<stopping, forceStop, svol>>
    /\ IF forceStop
       THEN /\ ssm' = Rollback(sconn[c])
            /\ SSet(c, Done(sconn[c], <<>>))
       ELSE \E ioOk \in BOOLEAN :
            LET lb == Min(sconn[c].bulk, sconn[c].rem) % 65536 IN
            IF ioOk
            THEN /\ ssm' = ssm
                 /\ SSet(c, [sconn[c] EXCEPT !.rem = @ - lb])
            ELSE /\ ssm' = Rollback(sconn[c])
                 /\ SSet(c, Failed(sconn[c], <<>>))

\* The gids are sent, the archive's Ack is awaited, FullSync commits to
\* Stopped (in memory only).
c2sFullSyncFinish(c) ==
    /\ sconn[c].h = "full-sync" /\ sconn[c].pc = "send"
    /\ sconn[c].rem = 0
    /\ UNCHANGED <<stopping, forceStop, svol>>
    /\ \E ackOk \in BOOLEAN :
        IF ackOk
        THEN /\ ssm' = SCommit(sconn[c], sStopped)
             /\ SSet(c, [sconn[c] EXCEPT !.pc = "startmaster", !.from = "none"])
        ELSE /\ ssm' = Rollback(sconn[c])
             /\ SSet(c, Failed(sconn[c], <<>>))

\* The second transaction: Stopped -> StartMaster -> Master.
c2sFullSyncStartMaster(c) ==
    /\ sconn[c].h = "full-sync" /\ sconn[c].pc = "startmaster"
    /\ UNCHANGED <<stopping, forceStop, svol>>
    /\ IF SCanChange(sStopped, stStartMaster)
       THEN /\ ssm' = stStartMaster
            /\ SSet(c, [sconn[c] EXCEPT !.pc = "master", !.from = sStopped])
       ELSE /\ ssm' = ssm
            /\ SSet(c, Failed(sconn[c], <<>>))

c2sFullSyncMaster(c) ==
    /\ sconn[c].h = "full-sync" /\ sconn[c].pc = "master"
    /\ UNCHANGED <<stopping, forceStop>>
    /\ \E ioOk \in BOOLEAN :
        IF ioOk /\ svol.dir
        THEN /\ svol' = [svol EXCEPT !.state = sMaster]
             /\ ssm' = SCommit(sconn[c], sMaster)
             /\ SSet(c, Done(sconn[c], <<>>))
        ELSE /\ svol' = svol
             /\ ssm' = Rollback(sconn[c])
             /\ SSet(c, Failed(sconn[c], <<>>))

SCloseConn(c) ==
    /\ sconn[c].pc \in {"done", "failed"}
    /\ SSet(c, IdleConn)
    /\ UNCHANGED <<ssm, stopping, forceStop, svol>>

\* What a request worker does once it has a request (accepting one is the
\* client's doing).
StorageRun(c) ==
    \/ c2sInitVolBody(c)
    \/ c2sClearVolBody(c)
    \/ c2sStartBody(c)
    \/ c2sStopLoop(c)
    \/ c2sFullSyncTran(c)
    \/ c2sFullSyncNegotiate(c)
    \/ c2sFullSyncSend(c)
    \/ c2sFullSyncFinish(c)
    \/ c2sFullSyncStartMaster(c)
    \/ c2sFullSyncMaster(c)
    \/ SCloseConn(c)

SNext ==
    \E c \in Conns :
        \/ c2sInitVolServer(c)
        \/ c2sClearVolServer(c)
        \/ c2sStartServer(c)
        \/ c2sStopServer(c)
        \/ c2sFullSyncServer(c)
        \/ StorageRun(c)

\* ============================================================ full backup
\* The controller's full-bkp command, the bulkLb it hands on, and the loop
\* that moves the volume in chunks of bulkLb logical blocks.

\* The most passes of the chunk loop that are followed.
MaxPasses == 8

\* Decimal strings, as sequences of digits.
RECURSIVE atoi(_)
atoi(str) == IF str = <<>> THEN 0 ELSE atoi(SubSeq(str, 1, Len(str) - 1)) * 10 + str[Len(str)]

RECURSIVE itoa(_)
itoa(n) == IF n < 10 THEN <<n>> ELSE Append(itoa(n \div 10), n % 10)

\* bulkLb as the user may give it on the command line.
BulkParams ==
    { <<0>>, <<0, 0>>, <<2>>, <<0, 3>>, <<1, 6, 3, 8, 4>>,
      <<6, 5, 5, 3, 5>>, <<6, 5, 5, 3, 6>>, <<6, 5, 5, 3, 7>> }

\* The command's parameters: the volume id, then perhaps bulkLb.
FullBkpParams ==
    { <<"">>, <<VolId>> } \cup { <<VolId, b>> : b \in BulkParams }

\* The values DEFAULT_BULK_LB may have (it is declared outside this source).
DefaultBulkLbs == {1, 64, 1024}

\* Volume sizes in logical blocks.
SizeLbs == {1, 2, 5, 7, 16384, 40000, 65535, 65536, 65537, 65540}

\* c2sFullBkpClient up to sendStrVec: the string vector it sends, or "throw".
c2sFullBkpClient(params, dflt) ==
    IF Len(params) # 1 /\ Len(params) # 2 THEN "throw"
    ELSE IF params[1] = "" THEN "throw"
    ELSE IF Len(params) = 2 /\ atoi(params[2]) = 0 THEN "throw"
    ELSE <<params[1], itoa(IF Len(params) = 2 THEN atoi(params[2]) ELSE dflt)>>

\* The block count of one chunk, held in a uint16_t.
ChunkLb(bulkLb, remainingLb) == Min(bulkLb, remainingLb) % 65536

FbInit ==
    fb \in [pc : {"client"}, params : FullBkpParams, sizeLb : SizeLbs,
            bulkLb : {0}, remainingLb : {0}, c : {0}]

FbIdle ==
    fb = [pc |-> "client", params |-> <<VolId>>, sizeLb |-> 1,
          bulkLb |-> 0, remainingLb |-> 0, c |-> 0]

\* The controller sends the request, or throws; the storage server reads
\* bulkLb back from the string and, with the archive's "ok", enters the loop.
FullBkpRequest ==
    /\ fb.pc = "client"
    /\ \E dflt \in DefaultBulkLbs :
        LET v == c2sFullBkpClient(fb.params, dflt) IN
        IF v = "throw"
        THEN fb' = [fb EXCEPT !.pc = "rejected"]
        ELSE fb' = [fb EXCEPT !.pc = "loop", !.bulkLb = atoi(v[2]),
                              !.remainingLb = fb.sizeLb]
    /\ UNCHANGED <<avars, svars, tp, uvars>>

\* One pass of while (0 < remainingLb), the same in the sender and in the
\* receiver: a chunk of lb blocks, remainingLb -= lb.
FullSyncPass ==
    /\ fb.pc = "loop"
    /\ fb.remainingLb > 0
    /\ fb.c < MaxPasses
    /\ LET lb == ChunkLb(fb.bulkLb, fb.remainingLb) IN
        fb' = [fb EXCEPT !.remainingLb = @ - lb, !.c = @ + 1]
    /\ UNCHANGED <<avars, svars, tp, uvars>>

FullSyncEnd ==
    /\ fb.pc = "loop"
    /\ fb.remainingLb = 0
    /\ fb' = [fb EXCEPT !.pc = "done"]
    /\ UNCHANGED <<avars, svars, tp, uvars>>

FbNext ==
    \/ FullBkpRequest
    \/ FullSyncPass
    \/ FullSyncEnd

\* ========================================================== log transport
\* walb::log::Sender and Receiver, the BoundedQueues between their worker
\* threads, and the compressor test's pipeline over the same queue.

\* The capacity of every queue that is followed (Q_SIZE is 16, the test's 10).
QSize == 2
\* The most packs a sender pushes, and the most items the test's producer.
MaxPacks == 2
MaxItems == 3

QNames == {"q0", "q1", "q2", "r0", "r1"}
Threads == {"producer", "compress", "send", "recv", "uncompress", "consumer"}

\* The records of a pack header: what each record is.
Packs == { <<>>, <<"discard", "normal">>, <<"normal", "padding">> }

\* LogRecord::hasDataForChecksum: neither a discard nor a padding record.
hasDataForChecksum(rec) == rec # "discard" /\ rec # "padding"

\* A message (one CompressedData): a pack header with its records, or the
\* blocks of one IO; z: the data is in compressed form.
NoMsg == [kind |-> "none", pack |-> 0, recs |-> <<>>, idx |-> 0, z |-> FALSE]
Hdr(p, recs) == [kind |-> "hdr", pack |-> p, recs |-> recs, idx |-> 0, z |-> FALSE]
Io(p, i) == [kind |-> "io", pack |-> p, recs |-> <<>>, idx |-> i, z |-> FALSE]
compress(m) == [m EXCEPT !.z = TRUE]
uncompress(m) == [m EXCEPT !.z = FALSE]

\* BoundedQueue: queue_, closed_, isError_.
NewQueue == [items |-> <<>>, closed |-> FALSE, isError |-> FALSE]
\* BoundedQueue::error (fail in walb_log_net.hpp).
QFail(q) == [q EXCEPT !.closed = TRUE, !.isError = TRUE]
\* Faulty variant: push does not wait on a full queue.
PushResult_NoWait(q) ==
    IF q.isError THEN "error"
    ELSE IF q.closed THEN "closed"
    ELSE "ok"
\* What push does now: "error" (runtime_error), "closed" (ClosedError),
\* "wait" (the queue is full) or "ok".
PushResult(q) ==
    IF q.isError THEN "error"
    ELSE IF q.closed THEN "closed"
    ELSE IF QSize <= Len(q.items) THEN "wait"
    ELSE "ok"
\* What T pop() does now: "error", "closed" (closed and empty), "wait" (the
\* queue is empty and open) or "ok". bool pop(T&) turns "closed" into false.
PopResult(q) ==
    IF q.isError THEN "error"
    ELSE IF q.closed /\ q.items = <<>> THEN "closed"
    ELSE IF q.items = <<>> THEN "wait"
    ELSE "ok"
\* BoundedQueue::isEnd: "error" (runtime_error), "end" (true: the queue is
\* closed and empty) or "more" (false).
isEnd(q) ==
    IF q.isError THEN "error"
    ELSE IF q.closed /\ q.items = <<>> THEN "end"
    ELSE "more"

\* tp.q: the queues; pc: where each thread is; held: the item a worker has
\* popped or received and not yet passed on; sock: what was written to the
\* socket; broken: the connection is lost; rd: how much of sock was read;
\* todo: the test producer's items; pushed, popped: what the producer has
\* pushed and the consumer has got; snd, rcv: the pack the caller of the
\* Sender, and of the Receiver, is in.
TpIdle ==
    tp = [q |-> [n \in QNames |-> NewQueue], pc |-> [t \in Threads |-> "idle"],
          held |-> [t \in Threads |-> NoMsg], sock |-> <<>>, broken |-> FALSE,
          rd |-> 0, todo |-> <<>>, pushed |-> <<>>, popped |-> <<>>,
          snd |-> [recs |-> <<>>, idx |-> 0, packs |-> 0],
          rcv |-> [recs |-> <<>>, idx |-> 0, packs |-> 0]]

\* CompressWorker (zip) and UncompressWorker: while (inQ.pop(d))
\* outQ.push(d.compress()), or d.uncompress(); then outQ.sync(); on an
\* exception both queues are failed.
Worker(w, in, out, zip) ==
    /\ tp.pc[w] = "run"
    /\ IF tp.held[w] = NoMsg
       THEN LET r == PopResult(tp.q[in]) IN
            /\ r # "wait"
            /\ tp' = IF r = "ok"
                     THEN [tp EXCEPT !.held[w] = Head(tp.q[in].items),
                                     !.q[in].items = Tail(@)]
                     ELSE IF r = "closed" /\ ~tp.q[out].isError
                     THEN [tp EXCEPT !.q[out].closed = TRUE, !.pc[w] = "done"]
                     ELSE [tp EXCEPT !.q[in] = QFail(@), !.q[out] = QFail(@),
                                     !.pc[w] = "error"]
       ELSE LET r == PushResult(tp.q[out]) IN
            /\ r # "wait"
            /\ tp' = IF r = "ok"
                     THEN [tp EXCEPT !.q[out].items = Append(@, IF zip THEN compress(tp.held[w])
                                                          ELSE uncompress(tp.held[w])),
                                     !.held[w] = NoMsg]
                     ELSE [tp EXCEPT !.q[in] = QFail(@), !.q[out] = QFail(@),
                                     !.pc[w] = "error"]
    /\ UNCHANGED notTransport

CompressWorker == Worker("compress", "q0", "q1", TRUE)
UncompressWorker(in, out) == Worker("uncompress", in, out, FALSE)

\* ------------------------------------------------- the compressor's test
\* Producer: n pushes, then sync(); an exception ends in outQ.error().
Producer ==
    /\ tp.pc["producer"] = "run"
    /\ LET r == IF tp.todo = <<>> THEN (IF tp.q["q0"].isError THEN "error" ELSE "sync")
                ELSE PushResult(tp.q["q0"]) IN
        /\ r # "wait"
        /\ tp' = IF r = "ok"
                 THEN [tp EXCEPT !.q["q0"].items = Append(@, Head(tp.todo)),
                                 !.pushed = Append(@, Head(tp.todo)),
                                 !.todo = Tail(@)]
                 ELSE IF r = "sync"
                 THEN [tp EXCEPT !.q["q0"].closed = TRUE, !.pc["producer"] = "done"]
                 ELSE [tp EXCEPT !.q["q0"] = QFail(@), !.pc["producer"] = "error"]
    /\ UNCHANGED notTransport

\* Consumer: the test of while (!inQ.isEnd()).
ConsumerIsEnd ==
    /\ tp.pc["consumer"] = "isEnd"
    /\ LET e == isEnd(tp.q["q2"]) IN
        tp' = IF e = "error"
              THEN [tp EXCEPT !.q["q2"] = QFail(@), !.pc["consumer"] = "error"]
              ELSE [tp EXCEPT !.pc["consumer"] = IF e = "end" THEN "done" ELSE "pop"]
    /\ UNCHANGED notTransport

\* Consumer: cd = inQ.pop() in the loop's body; ClosedError and the queue's
\* runtime_error both reach catch (...), which calls inQ.error().
ConsumerPop ==
    /\ tp.pc["consumer"] = "pop"
    /\ LET r == PopResult(tp.q["q2"]) IN
        /\ r # "wait"
        /\ tp' = IF r = "ok"
                 THEN [tp EXCEPT !.popped = Append(@, Head(tp.q["q2"].items)),
                                 !.q["q2"].items = Tail(@),
                                 !.pc["consumer"] = "isEnd"]
                 ELSE [tp EXCEPT !.q["q2"] = QFail(@), !.pc["consumer"] = "error"]
    /\ UNCHANGED notTransport

\* The four threads started, the producer with n items to push.
PipeInit ==
    /\ \E n \in 0..MaxItems :
        tp = [q |-> [x \in QNames |-> NewQueue],
              pc |-> [t \in Threads |->
                        IF t \in {"producer", "compress", "uncompress"} THEN "run"
                        ELSE IF t = "consumer" THEN "isEnd" ELSE "idle"],
              held |-> [t \in Threads |-> NoMsg], sock |-> <<>>, broken |-> FALSE,
              rd |-> 0, todo |-> [i \in 1..n |-> Io(0, i)],
              pushed |-> <<>>, popped |-> <<>>,
              snd |-> [recs |-> <<>>, idx |-> 0, packs |-> 0],
              rcv |-> [recs |-> <<>>, idx |-> 0, packs |-> 0]]
    /\ ArchiveIdle /\ StorageIdle /\ FbIdle /\ UtilIdle

PipeNext ==
    \/ Producer
    \/ CompressWorker
    \/ UncompressWorker("q1", "q2")
    \/ ConsumerIsEnd
    \/ ConsumerPop

\* ------------------------------------------------- Sender and Receiver
\* An exception in the Sender's caller unwinds through ~Sender, which calls
\* fail(): both queues are failed and the workers are joined.
SenderThrow == [tp EXCEPT !.q["q0"] = QFail(@), !.q["q1"] = QFail(@),
                          !.pc["producer"] = "failing"]

\* Sender::pushHeader: one message for the header, whatever its records.
pushHeader ==
    /\ tp.pc["producer"] = "run"
    /\ tp.snd.idx = Len(tp.snd.recs)
    /\ tp.snd.packs < MaxPacks
    /\ \E recs \in Packs :
        LET r == PushResult(tp.q["q0"])
            m == Hdr(tp.snd.packs + 1, recs) IN
        /\ r # "wait"
        /\ tp' = IF r = "ok"
                 THEN [tp EXCEPT !.q["q0"].items = Append(@, m),
                                 !.pushed = Append(@, m),
                                 !.snd = [recs |-> recs, idx |-> 0, packs |-> @.packs + 1]]
                 ELSE SenderThrow
    /\ UNCHANGED notTransport

\* Faulty variant: a message is pushed for every record, data or not.
pushIo_Always ==
    /\ tp.pc["producer"] = "run"
    /\ tp.snd.idx < Len(tp.snd.recs)
    /\ LET r == PushResult(tp.q["q0"])
           m == Io(tp.snd.packs, tp.snd.idx + 1) IN
        /\ r # "wait"
        /\ tp' = IF r = "ok"
                 THEN [tp EXCEPT !.q["q0"].items = Append(@, m),
                                 !.pushed = Append(@, m),
                                 !.snd.idx = @ + 1]
                 ELSE SenderThrow
    /\ UNCHANGED notTransport

\* Sender::pushIo: a message only for a record that has data.
pushIo ==
    /\ tp.pc["producer"] = "run"
    /\ tp.snd.idx < Len(tp.snd.recs)
    /\ LET r == PushResult(tp.q["q0"])
           m == Io(tp.snd.packs, tp.snd.idx + 1) IN
        IF hasDataForChecksum(tp.snd.recs[tp.snd.idx + 1])
        THEN /\ r # "wait"
             /\ tp' = IF r = "ok"
                      THEN [tp EXCEPT !.q["q0"].items = Append(@, m),
                                      !.pushed = Append(@, m),
                                      !.snd.idx = @ + 1]
                      ELSE SenderThrow
        ELSE tp' = [tp EXCEPT !.snd.idx = @ + 1]
    /\ UNCHANGED notTransport

\* Sender::sync up to joinWorkers, called between two packs: q0_.sync()
\* throws if the queue has failed, else closes it; isEnd_ = true.
SenderSync ==
    /\ tp.pc["producer"] = "run"
    /\ tp.snd.idx = Len(tp.snd.recs)
    /\ tp' = IF tp.q["q0"].isError THEN SenderThrow
             ELSE [tp EXCEPT !.q["q0"].closed = TRUE, !.pc["producer"] = "joining"]
    /\ UNCHANGED notTransport

\* Sender::fail up to joinWorkers.
SenderFail ==
    /\ tp.pc["producer"] = "run"
    /\ tp' = SenderThrow
    /\ UNCHANGED notTransport

\* Sender::joinWorkers in sync and in fail: it returns when both workers
\* have ended; a worker's exception is logged and dropped.
joinWorkers ==
    /\ tp.pc["producer"] \in {"joining", "failing"}
    /\ tp.pc["compress"] \in {"done", "error"}
    /\ tp.pc["send"] \in {"done", "error"}
    /\ tp' = [tp EXCEPT !.pc["producer"] = IF @ = "joining" THEN "synced" ELSE "failed"]
    /\ UNCHANGED notTransport

\* What the socket carries: a control marker, with NEXT its message.
Ctl(c, m) == [ctl |-> c, msg |-> m]

\* Sender::SendWorker: while (inQ_.pop(cd)) { ctrl.next(); cd.send(); }
\* ctrl.end(); any exception goes through handleError, which tries to write
\* ERROR and fails q1. A write may fail (ok = FALSE): the connection is
\* lost then, and so is the ERROR that handleError tries to write.
SendWorker ==
    /\ tp.pc["send"] = "run"
    /\ \E ok \in BOOLEAN :
        LET r == PopResult(tp.q["q1"])
            lost == [tp EXCEPT !.broken = TRUE, !.q["q1"] = QFail(@), !.pc["send"] = "error"] IN
        IF tp.held["send"] = NoMsg
        THEN /\ r # "wait"
             /\ tp' = IF r = "ok"
                      THEN [tp EXCEPT !.held["send"] = Head(tp.q["q1"].items),
                                      !.q["q1"].items = Tail(@)]
                      ELSE IF ~ok THEN lost
                      ELSE IF r = "closed"
                      THEN [tp EXCEPT !.sock = Append(@, Ctl("END", NoMsg)),
                                      !.pc["send"] = "done"]
                      ELSE [tp EXCEPT !.sock = Append(@, Ctl("ERROR", NoMsg)),
                                      !.q["q1"] = QFail(@), !.pc["send"] = "error"]
        ELSE tp' = IF ok
                   THEN [tp EXCEPT !.sock = Append(@, Ctl("NEXT", tp.held["send"])),
                                   !.held["send"] = NoMsg]
                   ELSE lost
    /\ UNCHANGED notTransport

\* Faulty variant: a message that finds q0 full is dropped, not waited for.
RecvWorker_DropWhenFull ==
    /\ tp.pc["recv"] = "run"
    /\ LET failed == [tp EXCEPT !.q["r0"] = QFail(@), !.pc["recv"] = "error"]
           r == PushResult(tp.q["r0"]) IN
        IF tp.held["recv"] # NoMsg
        THEN tp' = IF r = "ok"
                   THEN [tp EXCEPT !.q["r0"].items = Append(@, tp.held["recv"]),
                                   !.held["recv"] = NoMsg]
                   ELSE IF r = "wait" THEN [tp EXCEPT !.held["recv"] = NoMsg]
                   ELSE failed
        ELSE IF tp.rd < Len(tp.sock)
        THEN LET f == tp.sock[tp.rd + 1] IN
             tp' = IF f.ctl = "NEXT"
                   THEN [tp EXCEPT !.held["recv"] = f.msg, !.rd = @ + 1]
                   ELSE IF f.ctl = "END" /\ ~tp.q["r0"].isError
                   THEN [tp EXCEPT !.q["r0"].closed = TRUE, !.pc["recv"] = "done",
                                   !.rd = @ + 1]
                   ELSE [failed EXCEPT !.rd = @ + 1]
        ELSE /\ tp.broken
             /\ tp' = failed
    /\ UNCHANGED notTransport

\* Faulty variant: the ERROR marker ends the stream as END does.
RecvWorker_ErrorAsEnd ==
    /\ tp.pc["recv"] = "run"
    /\ LET failed == [tp EXCEPT !.q["r0"] = QFail(@), !.pc["recv"] = "error"]
           r == PushResult(tp.q["r0"]) IN
        IF tp.held["recv"] # NoMsg
        THEN /\ r # "wait"
             /\ tp' = IF r = "ok"
                      THEN [tp EXCEPT !.q["r0"].items = Append(@, tp.held["recv"]),
                                      !.held["recv"] = NoMsg]
                      ELSE failed
        ELSE IF tp.rd < Len(tp.sock)
        THEN LET f == tp.sock[tp.rd + 1] IN
             tp' = IF f.ctl = "NEXT"
                   THEN [tp EXCEPT !.held["recv"] = f.msg, !.rd = @ + 1]
                   ELSE IF ~tp.q["r0"].isError
                   THEN [tp EXCEPT !.q["r0"].closed = TRUE, !.pc["recv"] = "done",
                                   !.rd = @ + 1]
                   ELSE [failed EXCEPT !.rd = @ + 1]
        ELSE /\ tp.broken
             /\ tp' = failed
    /\ UNCHANGED notTransport

\* Receiver::RecvWorker: while (ctrl.isNext()) { cd.recv(); outQ_.push(cd); }
\* ERROR throws, END syncs q0; any exception fails q0. Reading past what a
\* lost connection carried throws.
RecvWorker ==
    /\ tp.pc["recv"] = "run"
    /\ LET failed == [tp EXCEPT !.q["r0"] = QFail(@), !.pc["recv"] = "error"]
           r == PushResult(tp.q["r0"]) IN
        IF tp.held["recv"] # NoMsg
        THEN /\ r # "wait"
             /\ tp' = IF r = "ok"
                      THEN [tp EXCEPT !.q["r0"].items = Append(@, tp.held["recv"]),
                                      !.held["recv"] = NoMsg]
                      ELSE failed
        ELSE IF tp.rd < Len(tp.sock)
        THEN LET f == tp.sock[tp.rd + 1] IN
             tp' = IF f.ctl = "NEXT"
                   THEN [tp EXCEPT !.held["recv"] = f.msg, !.rd = @ + 1]
                   ELSE IF f.ctl = "END" /\ ~tp.q["r0"].isError
                   THEN [tp EXCEPT !.q["r0"].closed = TRUE, !.pc["recv"] = "done",
                                   !.rd = @ + 1]
                   ELSE [failed EXCEPT !.rd = @ + 1]
        ELSE /\ tp.broken
             /\ tp' = failed
    /\ UNCHANGED notTransport

\* An exception in the Receiver's caller unwinds through ~Receiver, which
\* calls fail().
ReceiverThrow == [tp EXCEPT !.q["r0"] = QFail(@), !.q["r1"] = QFail(@),
                            !.pc["consumer"] = "raised"]

\* Receiver::popHeader: false at the queue's end, an exception if the queue
\* has failed or the message is not of a header's size.
popHeader ==
    /\ tp.pc["consumer"] = "run"
    /\ tp.rcv.idx = Len(tp.rcv.recs)
    /\ LET r == PopResult(tp.q["r1"])
           m == Head(tp.q["r1"].items) IN
        /\ r # "wait"
        /\ tp' = IF r = "closed" THEN [tp EXCEPT !.pc["consumer"] = "end"]
                 ELSE IF r = "ok" /\ m.kind = "hdr" /\ ~m.z
                 THEN [tp EXCEPT !.q["r1"].items = Tail(@),
                                 !.popped = Append(@, m),
                                 !.rcv = [recs |-> m.recs, idx |-> 0, packs |-> @.packs + 1]]
                 ELSE ReceiverThrow
    /\ UNCHANGED notTransport

\* Receiver::popIo: a message only for a record that has data; no message,
\* or one that is not this record's blocks, is an exception.
popIo ==
    /\ tp.pc["consumer"] = "run"
    /\ tp.rcv.idx < Len(tp.rcv.recs)
    /\ LET r == PopResult(tp.q["r1"])
           m == Head(tp.q["r1"].items) IN
        IF hasDataForChecksum(tp.rcv.recs[tp.rcv.idx + 1])
        THEN /\ r # "wait"
             /\ tp' = IF r = "ok" /\ m.kind = "io" /\ ~m.z
                      THEN [tp EXCEPT !.q["r1"].items = Tail(@),
                                      !.popped = Append(@, m),
                                      !.rcv.idx = @ + 1]
                      ELSE ReceiverThrow
        ELSE tp' = [tp EXCEPT !.rcv.idx = @ + 1]
    /\ UNCHANGED notTransport

\* Sender::start and Receiver::start have run: the four workers are started.
LogInit ==
    /\ tp = [q |-> [x \in QNames |-> NewQueue],
             pc |-> [t \in Threads |-> "run"],
             held |-> [t \in Threads |-> NoMsg], sock |-> <<>>, broken |-> FALSE,
             rd |-> 0, todo |-> <<>>, pushed |-> <<>>, popped |-> <<>>,
             snd |-> [recs |-> <<>>, idx |-> 0, packs |-> 0],
             rcv |-> [recs |-> <<>>, idx |-> 0, packs |-> 0]]
    /\ ArchiveIdle /\ StorageIdle /\ FbIdle /\ UtilIdle

LogNext ==
    \/ pushHeader
    \/ pushIo
    \/ SenderSync
    \/ SenderFail
    \/ joinWorkers
    \/ CompressWorker
    \/ SendWorker
    \/ RecvWorker
    \/ UncompressWorker("r0", "r1")
    \/ popHeader
    \/ popIo

\* ------------------------------------------------- setParams: pbs and salt
\* The pbs and salt a Sender or a Receiver is given by setParams, and the
\* pbs and salt a pack header carries.
HeaderParams == [pbs : {512, 4096}, salt : {0, 1}]

\* Faulty variant: only the pbs is compared.
verifyPbsAndSalt_PbsOnly(header, p) == header.pbs = p.pbs

\* Sender::verifyPbsAndSalt: TRUE if it returns, FALSE if it throws.
verifyPbsAndSalt(header, p) == header.pbs = p.pbs /\ header.salt = p.salt

\* LogPackHeader::copyFrom in popHeader: the header is taken only if it is
\* valid under the receiver's pbs and salt.
copyFrom(header, p) == header.pbs = p.pbs /\ header.salt = p.salt

\* Here tp is: snd, rcv (what setParams gave the Sender and the Receiver),
\* q (the messages on their way, each with its size in bytes and the header
\* it was made from), got (the headers popHeader returned), spc, rpc (the
\* two callers: "run" or "thrown"), n (the headers offered so far).
ParamsInit ==
    /\ \E s \in HeaderParams, r \in HeaderParams :
        tp = [snd |-> s, rcv |-> r, q |-> <<>>, got |-> <<>>,
              spc |-> "run", rpc |-> "run", n |-> 0]
    /\ ArchiveIdle /\ StorageIdle /\ FbIdle /\ UtilIdle

\* Sender::pushHeader with any header: verifyPbsAndSalt, then one message of
\* pbs_ bytes.
PushHeaderVerify ==
    /\ tp.spc = "run"
    /\ tp.n < MaxPacks
    /\ \E h \in HeaderParams :
        tp' = IF verifyPbsAndSalt(h, tp.snd)
              THEN [tp EXCEPT !.q = Append(@, [kind |-> "hdr", size |-> tp.snd.pbs, h |-> h]),
                              !.n = @ + 1]
              ELSE [tp EXCEPT !.spc = "thrown", !.n = @ + 1]
    /\ UNCHANGED notTransport

\* Sender::pushIo of a record with data, with any header: verifyPbsAndSalt,
\* then one message of the record's blocks.
PushIoVerify ==
    /\ tp.spc = "run"
    /\ tp.n < MaxPacks
    /\ \E h \in HeaderParams :
        tp' = IF verifyPbsAndSalt(h, tp.snd)
              THEN [tp EXCEPT !.q = Append(@, [kind |-> "io", size |-> h.pbs, h |-> h]),
                              !.n = @ + 1]
              ELSE [tp EXCEPT !.spc = "thrown", !.n = @ + 1]
    /\ UNCHANGED notTransport

\* Receiver::popHeader: the message must be of pbs_ bytes, and copyFrom
\* must take it.
PopHeaderVerify ==
    /\ tp.rpc = "run"
    /\ tp.q # <<>>
    /\ Head(tp.q).kind = "hdr"
    /\ tp' = IF Head(tp.q).size = tp.rcv.pbs /\ copyFrom(Head(tp.q).h, tp.rcv)
             THEN [tp EXCEPT !.q = Tail(@), !.got = Append(@, Head(tp.q).h)]
             ELSE [tp EXCEPT !.q = Tail(@), !.rpc = "thrown"]
    /\ UNCHANGED notTransport

\* Receiver::popIo: convertToLogBlockShared compares the size with
\* ioSizePb * pbs_, verifyLogChecksum uses salt_.
PopIoVerify ==
    /\ tp.rpc = "run"
    /\ tp.q # <<>>
    /\ Head(tp.q).kind = "io"
    /\ tp' = IF Head(tp.q).size = tp.rcv.pbs /\ Head(tp.q).h.salt = tp.rcv.salt
             THEN [tp EXCEPT !.q = Tail(@)]
             ELSE [tp EXCEPT !.q = Tail(@), !.rpc = "thrown"]
    /\ UNCHANGED notTransport

ParamsNext ==
    \/ PushHeaderVerify
    \/ PushIoVerify
    \/ PopHeaderVerify
    \/ PopIoVerify

\* ============================================================ BoundedQueue
\* One BoundedQueue used by several threads, with its two condition
\* variables: a thread in condFull_.wait or condEmpty_.wait goes on only
\* after a notify_all, and then tests its loop's condition again. The
\* capacity is the one given to the constructor: nothing calls resize.
QThreads == {1, 2}

\* bq.q: the queue; n: the items pushed so far (item k is the k-th pushed);
\* popped: the items popped, in order; th: for each thread pc ("idle", or
\* "push"/"pop": it is inside that call's wait), ntf (it was notified),
\* waited (its last call has waited), and its last call's op, res and item.
IdleThread == [pc |-> "idle", ntf |-> FALSE, waited |-> FALSE, op |-> "none",
               res |-> "none", item |-> 0]
QueueInit ==
    /\ bq = [q |-> NewQueue, n |-> 0, popped |-> <<>>,
             th |-> [t \in QThreads |-> IdleThread]]
    /\ vfs = <<>> /\ rw = <<>> /\ pool = <<>> /\ ExtraIdle
    /\ ArchiveIdle /\ StorageIdle /\ FbIdle /\ TpIdle

notQueue == <<avars, svars, fb, tp, vfs, rw, pool, xvars>>

\* notify_all on the condition variable that the calls in ops wait on.
NotifyAll(th, ops) ==
    [t \in QThreads |-> IF th[t].pc \in ops THEN [th[t] EXCEPT !.ntf = TRUE] ELSE th[t]]

\* BoundedQueue::push once it holds the lock, at the call (w = FALSE) or
\* after a wake-up in its loop (w = TRUE).
PushStep(t, w) ==
    LET r == PushResult(bq.q)
        me == [IdleThread EXCEPT !.op = "push", !.waited = w] IN
    bq' = IF r = "wait"
          THEN [bq EXCEPT !.th[t] = [me EXCEPT !.pc = "push", !.waited = TRUE]]
          ELSE IF r = "ok"
          THEN [bq EXCEPT !.q.items = Append(@, bq.n + 1), !.n = @ + 1,
                          !.th = [(IF bq.q.items = <<>> THEN NotifyAll(bq.th, {"pop"})
                                   ELSE bq.th)
                                  EXCEPT ![t] = [me EXCEPT !.res = "ok"]]]
          ELSE [bq EXCEPT !.th[t] = [me EXCEPT !.res = r]]

\* BoundedQueue::pop (T pop()) once it holds the lock.
PopStep(t, w) ==
    LET r == PopResult(bq.q)
        me == [IdleThread EXCEPT !.op = "pop", !.waited = w] IN
    bq' = IF r = "wait"
          THEN [bq EXCEPT !.th[t] = [me EXCEPT !.pc = "pop", !.waited = TRUE]]
          ELSE IF r = "ok"
          THEN [bq EXCEPT !.q.items = Tail(@), !.popped = Append(@, Head(bq.q.items)),
                          !.th = [(IF QSize <= Len(bq.q.items) THEN NotifyAll(bq.th, {"push"})
                                   ELSE bq.th)
                                  EXCEPT ![t] = [me EXCEPT !.res = "ok",
                                                           !.item = Head(bq.q.items)]]]
          ELSE [bq EXCEPT !.th[t] = [me EXCEPT !.res = r]]

QPush(t) ==
    /\ bq.th[t].pc = "idle"
    /\ bq.n < MaxItems
    /\ PushStep(t, FALSE)
    /\ UNCHANGED notQueue

QPop(t) ==
    /\ bq.th[t].pc = "idle"
    /\ PopStep(t, FALSE)
    /\ UNCHANGED notQueue

\* A notified thread gets the lock back inside condFull_.wait or
\* condEmpty_.wait and goes round its loop.
QWake(t) ==
    /\ bq.th[t].pc # "idle"
    /\ bq.th[t].ntf
    /\ IF bq.th[t].pc = "push" THEN PushStep(t, TRUE) ELSE PopStep(t, TRUE)
    /\ UNCHANGED notQueue

\* Faulty variant: sync closes the queue and notifies nobody.
QSync_NoNotify(t) ==
    /\ bq.th[t].pc = "idle"
    /\ LET me == [IdleThread EXCEPT !.op = "sync"] IN
        bq' = IF bq.q.isError
              THEN [bq EXCEPT !.th[t] = [me EXCEPT !.res = "error"]]
              ELSE [bq EXCEPT !.q.closed = TRUE, !.th[t] = [me EXCEPT !.res = "ok"]]
    /\ UNCHANGED notQueue

\* BoundedQueue::sync.
QSync(t) ==
    /\ bq.th[t].pc = "idle"
    /\ LET me == [IdleThread EXCEPT !.op = "sync"] IN
        bq' = IF bq.q.isError
              THEN [bq EXCEPT !.th[t] = [me EXCEPT !.res = "error"]]
              ELSE [bq EXCEPT !.q.closed = TRUE,
                              !.th = [NotifyAll(bq.th, {"push", "pop"})
                                      EXCEPT ![t] = [me EXCEPT !.res = "ok"]]]
    /\ UNCHANGED notQueue

\* Faulty variant: error marks the queue and notifies nobody.
QError_NoNotify(t) ==
    /\ bq.th[t].pc = "idle"
    /\ ~bq.q.isError
    /\ bq' = [bq EXCEPT !.q = QFail(@)]
    /\ UNCHANGED notQueue

\* BoundedQueue::error; on a queue already in error it does nothing.
QError(t) ==
    /\ bq.th[t].pc = "idle"
    /\ ~bq.q.isError
    /\ bq' = [bq EXCEPT !.q = QFail(@), !.th = NotifyAll(@, {"push", "pop"})]
    /\ UNCHANGED notQueue

QueueNext ==
    \/ \E t \in QThreads : QPush(t)
    \/ \E t \in QThreads : QPop(t)
    \/ \E t \in QThreads : QWake(t)
    \/ \E t \in QThreads : QSync(t)
    \/ \E t \in QThreads : QError(t)

\* ===================================================== VirtualFullScanner
\* Sizes and positions in the base image are counted in half logical
\* blocks, so that a base can end in the middle of a block.
LOGICAL_BLOCK_SIZE == 2
MaxBlocks == 3
MaxRecs == 2
MaxRead == 2

RecTypes == {"normal", "allZero", "discard"}
NoRec == [io_address |-> 0, io_blocks |-> 0, type |-> "none"]
\* What the Merger yields: records sorted by address that do not overlap
\* and lie in the first n blocks.
Overlays(n) ==
    { s \in UNION { [1..k -> [io_address : 0..(MaxBlocks - 1), io_blocks : 1..MaxBlocks,
                              type : RecTypes]] : k \in 0..MaxRecs } :
        /\ \A i \in 1..Len(s) : s[i].io_address + s[i].io_blocks <= n
        /\ \A i \in 1..(Len(s) - 1) : s[i].io_address + s[i].io_blocks <= s[i + 1].io_address }

\* A scanner as constructed.
NewScanner(len, seekable, emptyWdiff, recs) ==
    [len |-> len, seekable |-> seekable, pos |-> 0, recs |-> recs, next |-> 1,
     emptyWdiff |-> emptyWdiff, isEndDiff |-> FALSE, rec |-> NoRec,
     offInIo |-> 0, addr |-> 0, out |-> <<>>, ret |-> 0, pc |-> "run"]

\* vfs.len: the base's length; seekable, pos: the base reader and its
\* position; recs, next: the merged records and how many were popped;
\* emptyWdiff, isEndDiff, rec (recIo_), offInIo, addr: the scanner's fields;
\* out: the blocks returned so far; ret: the last readSome's result in
\* blocks; pc: "run", "eof" (readSome returned 0) or "error" (it threw).
notScanner == <<avars, svars, fb, tp, bq, rw, pool, xvars>>

ScanInit ==
    /\ \E len \in 0..(MaxBlocks * LOGICAL_BLOCK_SIZE), seekable \in BOOLEAN, emptyWdiff \in BOOLEAN :
       \E recs \in Overlays(MaxBlocks) :
        /\ emptyWdiff => recs = <<>>
        /\ vfs = NewScanner(len, seekable, emptyWdiff, recs)
    /\ bq = <<>> /\ rw = <<>> /\ pool = <<>> /\ ExtraIdle
    /\ ArchiveIdle /\ StorageIdle /\ FbIdle /\ TpIdle

\* Faulty variant: offInIo_ is not set back to 0.
fillDiffIo_KeepOff(v) ==
    IF v.emptyWdiff \/ v.isEndDiff \/ v.offInIo # v.rec.io_blocks THEN v
    ELSE IF v.next <= Len(v.recs)
    THEN [v EXCEPT !.rec = v.recs[v.next], !.next = @ + 1]
    ELSE [v EXCEPT !.isEndDiff = TRUE, !.rec = NoRec]
fillDiffIo(v) ==
    IF v.emptyWdiff \/ v.isEndDiff \/ v.offInIo # v.rec.io_blocks THEN v
    ELSE IF v.next <= Len(v.recs)
    THEN [v EXCEPT !.offInIo = 0, !.rec = v.recs[v.next], !.next = @ + 1]
    ELSE [v EXCEPT !.offInIo = 0, !.isEndDiff = TRUE, !.rec = NoRec]

\* The reader gives what is left of the base, up to the size asked for.
readBase(v, blks) ==
    LET size == blks * LOGICAL_BLOCK_SIZE
        got == IF v.len <= v.pos THEN 0
               ELSE IF v.len - v.pos < size THEN v.len - v.pos ELSE size
        rest == size - got
        readLb == blks - rest \div LOGICAL_BLOCK_SIZE IN
    IF rest % LOGICAL_BLOCK_SIZE # 0
    THEN [v EXCEPT !.pos = @ + got, !.pc = "error"]
    ELSE [v EXCEPT !.pos = @ + got, !.addr = @ + readLb, !.ret = readLb,
                   !.out = @ \o [k \in 1..readLb |-> <<"base", v.pos \div LOGICAL_BLOCK_SIZE + k - 1>>]]

\* Faulty variant: the base is not skipped.
skipBase_Nothing(v, blks) == v
\* lseek moves a seekable reader, past the end too; FdReader::read of a
\* block throws at the end of the input.
skipBase(v, blks) ==
    IF v.seekable THEN [v EXCEPT !.pos = @ + blks * LOGICAL_BLOCK_SIZE]
    ELSE IF v.len < v.pos + blks * LOGICAL_BLOCK_SIZE
    THEN [v EXCEPT !.pos = IF @ < v.len THEN v.len ELSE @, !.pc = "error"]
    ELSE [v EXCEPT !.pos = @ + blks * LOGICAL_BLOCK_SIZE]

readWdiff(v, blks) ==
    LET data == [k \in 1..blks |-> IF v.rec.type = "normal"
                                  THEN <<"io", v.next - 1, v.offInIo + k - 1>>
                                  ELSE <<"zero">>]
        s == skipBase([v EXCEPT !.offInIo = @ + blks], blks) IN
    IF s.pc = "error" THEN s
    ELSE [s EXCEPT !.addr = @ + blks, !.ret = blks, !.out = @ \o data]

\* VirtualFullScanner::readSome for a buffer of n blocks.
readSomeResult(s, n) ==
    LET blks == IF n < 65535 THEN n ELSE 65535
        v == fillDiffIo(s)
        diffAddr == v.rec.io_address + v.offInIo
        r == IF v.emptyWdiff \/ v.isEndDiff THEN readBase(v, blks)
             ELSE IF v.addr = diffAddr
             THEN readWdiff(v, IF blks < v.rec.io_blocks - v.offInIo THEN blks
                               ELSE v.rec.io_blocks - v.offInIo)
             ELSE readBase(v, IF diffAddr - v.addr < blks THEN diffAddr - v.addr ELSE blks) IN
    IF r.pc = "run" /\ r.ret = 0 THEN [r EXCEPT !.pc = "eof"] ELSE r

readSome(n) ==
    /\ vfs.pc = "run"
    /\ vfs' = readSomeResult(vfs, n)
    /\ UNCHANGED notScanner

\* Two scanners, one on a seekable and one on a non-seekable reader of the
\* same base with the same overlay, read with the same buffer sizes.
PairInit ==
    /\ \E len \in 0..(MaxBlocks * LOGICAL_BLOCK_SIZE), emptyWdiff \in BOOLEAN :
       \E recs \in Overlays(MaxBlocks) :
        /\ emptyWdiff => recs = <<>>
        /\ vfs = [s |-> NewScanner(len, TRUE, emptyWdiff, recs),
                  d |-> NewScanner(len, FALSE, emptyWdiff, recs)]
    /\ bq = <<>> /\ rw = <<>> /\ pool = <<>> /\ ExtraIdle
    /\ ArchiveIdle /\ StorageIdle /\ FbIdle /\ TpIdle

readSomePair(n) ==
    /\ vfs.s.pc = "run" \/ vfs.d.pc = "run"
    /\ vfs' = [s |-> IF vfs.s.pc = "run" THEN readSomeResult(vfs.s, n) ELSE vfs.s,
               d |-> IF vfs.d.pc = "run" THEN readSomeResult(vfs.d, n) ELSE vfs.d]
    /\ UNCHANGED notScanner

PairNext == \E n \in 1..MaxRead : readSomePair(n)

ScanNext == \E n \in 1..MaxRead : readSome(n)

\* ========================================================== RequestWorker
\* One accepted connection served by RequestWorker::operator(). A socket
\* read or write may throw; after a write has thrown the connection is
\* lost and the writes after it throw too.
shutdownCN == "shutdown"
ProtocolNames == {shutdownCN, "status", "full-bkp", "bogus"}
HandlerMaps == {{"status", "full-bkp"}, {"status"}, {}}
GuardTexts == {"version differ c/s", "bad protocol", "socket error", "handler error", "other error"}

\* rw.handlers: the names in the handler map; protocolName, verSame: what
\* the client sent; sent: what the server has written to the socket;
\* broken: the connection is lost; sendErr: the flag of operator(); exc:
\* the exception the inner try block has thrown; tried: the guard has
\* called pkt.write(e.what()); handled: the handler that was invoked;
\* closed: sock.close was called.
WorkerInit ==
    /\ \E h \in HandlerMaps :
        rw = [pc |-> "negotiate", handlers |-> h, protocolName |-> "", verSame |-> FALSE,
              sent |-> <<>>, broken |-> FALSE, sendErr |-> TRUE, exc |-> "none",
              tried |-> FALSE, handled |-> "none", closed |-> FALSE]
    /\ bq = <<>> /\ vfs = <<>> /\ pool = <<>> /\ ExtraIdle
    /\ ArchiveIdle /\ StorageIdle /\ FbIdle /\ TpIdle

notWorker == <<avars, svars, fb, tp, bq, vfs, pool, xvars>>

\* pkt.write(s) on the connection of w: written, or thrown.
PktWrite(w, s, ok) ==
    IF ok /\ ~w.broken THEN [w EXCEPT !.sent = Append(@, s)]
    ELSE [w EXCEPT !.broken = TRUE, !.exc = "socket error"]

\* run1stNegotiateAsServer: the three reads, the write of the server id,
\* the test of the version.
run1stNegotiateAsServer ==
    /\ rw.pc = "negotiate"
    /\ \E name \in ProtocolNames, same \in BOOLEAN, readOk \in BOOLEAN, lost \in BOOLEAN, ok \in BOOLEAN :
        LET r == [rw EXCEPT !.protocolName = name, !.verSame = same]
            w == PktWrite(r, "serverId", ok) IN
        rw' = IF ~readOk
              THEN [rw EXCEPT !.exc = "socket error", !.broken = lost, !.pc = "catch"]
              ELSE IF w.exc # "none" THEN [w EXCEPT !.pc = "catch"]
              ELSE IF ~same THEN [w EXCEPT !.exc = "version differ c/s", !.pc = "catch"]
              ELSE [w EXCEPT !.pc = "dispatch"]
    /\ UNCHANGED notWorker

\* Faulty variant: a name that is not in the map is taken as it is.
findServerHandler_NoCheck(handlers, protocolName) == protocolName
\* The handler found, or "bad protocol" when findServerHandler throws.
findServerHandler(handlers, protocolName) ==
    IF protocolName = shutdownCN THEN "shutdownServer"
    ELSE IF protocolName \in handlers THEN protocolName
    ELSE "bad protocol"

\* The rest of the inner try block: the handler is looked up, "ok" is
\* sent, sendErr is cleared, and the handler runs: it may write to the
\* socket, and it returns or throws.
RequestWorkerHandle ==
    /\ rw.pc = "dispatch"
    /\ \E ok \in BOOLEAN, reply \in BOOLEAN, out \in {"return", "handler error", "other error"} :
        LET handler == findServerHandler(rw.handlers, rw.protocolName)
            w == PktWrite(rw, "ok", ok)
            h == [w EXCEPT !.sendErr = FALSE, !.handled = handler,
                           !.sent = IF reply THEN Append(@, "reply") ELSE @] IN
        rw' = IF handler = "bad protocol" THEN [rw EXCEPT !.exc = "bad protocol", !.pc = "catch"]
              ELSE IF w.exc # "none" THEN [w EXCEPT !.pc = "catch"]
              ELSE IF out = "return" THEN [h EXCEPT !.pc = "close"]
              ELSE [h EXCEPT !.exc = out, !.pc = "catch"]
    /\ UNCHANGED notWorker

\* Faulty variant: the guard writes the text whatever sendErr is.
RequestWorkerCatch_Always ==
    /\ rw.pc = "catch"
    /\ \E ok \in BOOLEAN :
        rw' = [rw EXCEPT !.tried = TRUE, !.pc = "close",
                         !.broken = @ \/ ~ok,
                         !.sent = IF ok /\ ~rw.broken THEN Append(@, rw.exc) ELSE @]
    /\ UNCHANGED notWorker

\* The catch clauses of the inner try block; what pkt.write throws here
\* is caught by the outer ones and logged.
RequestWorkerCatch ==
    /\ rw.pc = "catch"
    /\ \E ok \in BOOLEAN :
        rw' = IF rw.sendErr
              THEN [rw EXCEPT !.tried = TRUE, !.pc = "close",
                              !.broken = @ \/ ~ok,
                              !.sent = IF ok /\ ~rw.broken THEN Append(@, rw.exc) ELSE @]
              ELSE [rw EXCEPT !.pc = "close"]
    /\ UNCHANGED notWorker

\* sock.close(dontThrow).
RequestWorkerClose ==
    /\ rw.pc = "close"
    /\ rw' = [rw EXCEPT !.closed = TRUE, !.pc = "done"]
    /\ UNCHANGED notWorker

WorkerNext ==
    \/ run1stNegotiateAsServer
    \/ RequestWorkerHandle
    \/ RequestWorkerCatch
    \/ RequestWorkerClose

\* ========================================================= CompressedData
\* src/compressor.cpp and utest/wlog_compressor_test.cpp: a buffer is moved
\* into a CompressedData, compressed and uncompressed again. The engines
\* behind Compressor and Uncompressor are libraries; each is modelled as a
\* lossless encoding in a format of its own (runs of equal bytes under the
\* mode's tag), as-is as the bytes themselves.
MaxBytes == 3       \* longest buffer
AsIs == "AsIs"
Snappy == "Snappy"
Zlib == "Zlib"
Xz == "Xz"
Modes == {AsIs, Snappy, Zlib, Xz}
Bytes == {0, 255}
Buffers == UNION { [1..n -> Bytes] : n \in 1..MaxBytes }

notCodec == <<avars, svars, fb, tp, bq, vfs, rw, pool, mtx, ts, wv>>

RECURSIVE RunLength(_)
RunLength(in) ==
    IF in = <<>> THEN <<>>
    ELSE LET same == { n \in 1..Len(in) : \A i \in 1..n : in[i] = in[1] }
             run == CHOOSE n \in same : \A k \in same : k <= n IN
         <<run, in[1]>> \o RunLength(SubSeq(in, run + 1, Len(in)))

RECURSIVE RunLengthInv(_)
RunLengthInv(in) ==
    IF Len(in) < 2 THEN <<>>
    ELSE [i \in 1..in[1] |-> in[2]] \o RunLengthInv(SubSeq(in, 3, Len(in)))

\* The first byte of an engine's output names its format.
Magic(mode) == CASE mode = Snappy -> 1 [] mode = Zlib -> 2 [] mode = Xz -> 3

\* The engine each constructor makes for a mode (IMPL_CSTR).
CompressorEngine(mode) == mode
\* Faulty variant: the Uncompressor for Zlib is made with the Xz engine.
UncompressorEngine_Swapped(mode) == IF mode = Zlib THEN Xz ELSE mode
UncompressorEngine(mode) == mode

\* Compressor::run: the engine's output for the input bytes.
CompressorRun(mode, in) ==
    IF CompressorEngine(mode) = AsIs THEN in
    ELSE <<Magic(CompressorEngine(mode))>> \o RunLength(in)

\* Uncompressor::run: the bytes; it throws (ok FALSE) for input that is not
\* in the engine's format or gives more than maxOutSize bytes.
UncompressorRun(mode, maxOutSize, in) ==
    LET e == UncompressorEngine(mode)
        bad == e # AsIs /\ (in = <<>> \/ Head(in) # Magic(e))
        out == IF e = AsIs THEN in ELSE IF bad THEN <<>> ELSE RunLengthInv(Tail(in)) IN
    [ok |-> ~bad /\ Len(out) <= maxOutSize, out |-> out]

\* CompressedData: cmprSize (0: not compressed), origSize and the data.
moveFrom(cmprSize, origSize, data) ==
    [cmprSize |-> cmprSize, origSize |-> origSize, data |-> data]
isCompressed(d) == d.cmprSize # 0
rawSize(d) == IF isCompressed(d) THEN d.cmprSize ELSE d.origSize
rawData(d) == d.data

\* testCompressedData's cd0 for a buffer v.
CodecInit ==
    /\ \E mode \in Modes, v \in Buffers :
        cd = [mode |-> mode, cd0 |-> moveFrom(0, Len(v), v),
              cd1 |-> moveFrom(0, 0, <<>>), cd2 |-> moveFrom(0, 0, <<>>),
              pc |-> "compress"]
    /\ bq = <<>> /\ vfs = <<>> /\ rw = <<>> /\ pool = <<>>
    /\ mtx = <<>> /\ ts = <<>> /\ wv = <<>>
    /\ ArchiveIdle /\ StorageIdle /\ FbIdle /\ TpIdle

\* cd1 = cd0.compress()
CompressedData_compress ==
    /\ cd.pc = "compress"
    /\ LET out == CompressorRun(cd.mode, rawData(cd.cd0)) IN
        cd' = [cd EXCEPT !.cd1 = moveFrom(Len(out), cd.cd0.origSize, out),
                         !.pc = "uncompress"]
    /\ UNCHANGED notCodec

\* cd2 = cd1.uncompress()
CompressedData_uncompress ==
    /\ cd.pc = "uncompress"
    /\ LET r == UncompressorRun(cd.mode, cd.cd1.origSize, rawData(cd.cd1)) IN
        cd' = IF ~r.ok THEN [cd EXCEPT !.pc = "error"]
              ELSE [cd EXCEPT !.cd2 = moveFrom(0, Len(r.out), r.out), !.pc = "test"]
    /\ UNCHANGED notCodec

CodecNext == CompressedData_compress \/ CompressedData_uncompress

\* =================================================== ThroughputStabilizer
\* src/throughput_util.hpp: ts.now is the steady clock in ms; ts.mon is the
\* ThroughputMonitor (progressLb_ and the deque of records); ts.pc is "idle"
\* between calls and "loop" inside addAndSleepIfNecessary's while loop.
INTERVAL_MS == 10
MIN_MS == 900
MAX_MS == 1100
MaxAdds == 3        \* calls of addAndSleepIfNecessary
Rates == {0, 50}            \* maxLbPerSec_
AddSizes == {1, 100}        \* sizeLb
SleepTimes == {0, 500}      \* sleepMs
SleepLimits == {0, 500, 1000}   \* maxSleepMs
Elapsed == {0, 20, 600}     \* ms between two calls
Jitter == {0, 300}          \* ms a pass of the loop takes beyond its sleep

notStabilizer == <<avars, svars, fb, tp, bq, vfs, rw, pool, mtx, cd, wv>>

RECURSIVE DropOlder(_, _)
\* deq_.erase(begin, lower_bound(rec)): the records before time t go.
DropOlder(deq, t) ==
    IF deq # <<>> /\ Head(deq).timePoint < t THEN DropOlder(Tail(deq), t) ELSE deq

\* ThroughputMonitor::gc
gcRecords(deq, now) ==
    IF deq = <<>> \/ now - Head(deq).timePoint < MAX_MS THEN deq
    ELSE DropOlder(deq, now - MIN_MS)

getLbPerSecDetail(m, now) ==
    IF Len(m.deq) <= 1 THEN 0
    ELSE IF now - Head(m.deq).timePoint = 0 THEN 0
    ELSE ((m.progressLb - Head(m.deq).progressLb) * 1000) \div (now - Head(m.deq).timePoint)

\* The monitor after addAndGetLbPerSec; its result is getLbPerSecDetail of it.
addAndGetLbPerSec(m, sizeLb, now) ==
    LET progressLb == m.progressLb + sizeLb
        deq == IF m.deq = <<>> \/ now - m.deq[Len(m.deq)].timePoint > INTERVAL_MS
               THEN Append(m.deq, [timePoint |-> now, progressLb |-> progressLb])
               ELSE m.deq IN
    [progressLb |-> progressLb, deq |-> gcRecords(deq, now)]

\* The monitor after getLbPerSec.
getLbPerSec(m, now) == [m EXCEPT !.deq = gcRecords(@, now)]

\* ThroughputStabilizer::ThroughputStabilizer and setMaxLbPerSec
StabilizerInit ==
    /\ \E maxLbPerSec \in Rates :
        ts = [maxLbPerSec |-> maxLbPerSec, mon |-> [progressLb |-> 0, deq |-> <<>>],
              now |-> 0, pc |-> "idle", n |-> 0, sleepMs |-> 0, maxSleepMs |-> 0,
              total |-> 0, lbPerSec |-> 0, began |-> 0]
    /\ bq = <<>> /\ vfs = <<>> /\ rw = <<>> /\ pool = <<>>
    /\ mtx = <<>> /\ cd = <<>> /\ wv = <<>>
    /\ ArchiveIdle /\ StorageIdle /\ FbIdle /\ TpIdle

\* The call up to the while loop's first test, dt ms after the last return.
addAndSleepIfNecessary(sizeLb, sleepMs, maxSleepMs, dt) ==
    /\ ts.pc = "idle" /\ ts.n < MaxAdds
    /\ LET now == ts.now + dt
           mon == addAndGetLbPerSec(ts.mon, sizeLb, now) IN
        ts' = IF ts.maxLbPerSec = 0
              THEN [ts EXCEPT !.now = now, !.n = @ + 1, !.sleepMs = sleepMs,
                              !.maxSleepMs = maxSleepMs, !.total = 0, !.lbPerSec = 0,
                              !.began = now]
              ELSE [ts EXCEPT !.now = now, !.n = @ + 1, !.sleepMs = sleepMs,
                              !.maxSleepMs = maxSleepMs, !.total = 0, !.mon = mon,
                              !.lbPerSec = getLbPerSecDetail(mon, now), !.began = now,
                              !.pc = "loop"]
    /\ UNCHANGED notStabilizer

\* Faulty variant: the loop's test leaves out the limit on the time slept.
sleepLoop_NoLimit ==
    /\ ts.pc = "loop"
    /\ IF ts.lbPerSec > ts.maxLbPerSec
       THEN \E j \in Jitter :
            LET now == ts.now + ts.sleepMs + j
                mon == getLbPerSec(ts.mon, now) IN
            ts' = [ts EXCEPT !.now = now, !.total = @ + ts.sleepMs, !.mon = mon,
                             !.lbPerSec = getLbPerSecDetail(mon, now)]
       ELSE ts' = [ts EXCEPT !.pc = "idle"]
    /\ UNCHANGED notStabilizer

\* One test of the while loop: a pass (sleep_for sleeps sleepMs or longer,
\* then the rate is measured again) or the return.
sleepLoop ==
    /\ ts.pc = "loop"
    /\ IF ts.lbPerSec > ts.maxLbPerSec /\ ts.total < ts.maxSleepMs
       THEN \E j \in Jitter :
            LET now == ts.now + ts.sleepMs + j
                mon == getLbPerSec(ts.mon, now) IN
            ts' = [ts EXCEPT !.now = now, !.total = @ + ts.sleepMs, !.mon = mon,
                             !.lbPerSec = getLbPerSecDetail(mon, now)]
       ELSE ts' = [ts EXCEPT !.pc = "idle"]
    /\ UNCHANGED notStabilizer

StabilizerNext ==
    \/ \E sizeLb \in AddSizes, sleepMs \in SleepTimes, maxSleepMs \in SleepLimits, dt \in Elapsed :
        addAndSleepIfNecessary(sizeLb, sleepMs, maxSleepMs, dt)
    \/ sleepLoop

\* ========================================================== WldevVerifier
\* binsrc/verify_wldev.cpp: run() decides the lsid range and walks the log
\* packs. wv.visited are the lsids at which a pack header was read, wv.heads
\* the headers found there (their embedded logpackLsid and their
\* nextLogpackLsid); wv.pc is "start", "loop", "done" or "error".
MaxLsid == 3        \* lsids on the log device
MaxPackPb == 2      \* largest size of a pack in physical blocks
MaxVisits == 3      \* pack headers read in one run
NotSpecified == 2147483647  \* stands for uint64_t(-1), the largest lsid
Lsids == 0..MaxLsid

notVerifier == <<avars, svars, fb, tp, bq, vfs, rw, pool, mtx, cd, ts>>

\* Config::Config and WldevVerifier::WldevVerifier: the options -b and -e
\* and the super block read from the device.
VerifierInit ==
    /\ \E b \in Lsids \cup {NotSpecified}, e \in Lsids \cup {NotSpecified},
          oldest \in Lsids, written \in Lsids :
        /\ oldest <= written
        /\ wv = [cfgBegin |-> b, cfgEnd |-> e, oldest |-> oldest, written |-> written,
                 pc |-> "start", lsid |-> 0, beginLsid |-> 0, endLsid |-> 0,
                 visited |-> <<>>, heads |-> <<>>, err |-> ""]
    /\ bq = <<>> /\ vfs = <<>> /\ rw = <<>> /\ pool = <<>>
    /\ mtx = <<>> /\ cd = <<>> /\ ts = <<>>
    /\ ArchiveIdle /\ StorageIdle /\ FbIdle /\ TpIdle

\* Faulty variant: an empty range is let through.
decideRange_Strict(beginLsid, endLsid) == endLsid < beginLsid
\* The range is refused.
decideRange(beginLsid, endLsid) == endLsid <= beginLsid

\* run() up to the loop.
WldevVerifier_run ==
    /\ wv.pc = "start"
    /\ LET beginLsid == IF wv.cfgBegin = NotSpecified THEN wv.oldest ELSE wv.cfgBegin
           endLsid == IF wv.cfgEnd = NotSpecified THEN wv.written ELSE wv.cfgEnd IN
        wv' = IF decideRange(beginLsid, endLsid)
              THEN [wv EXCEPT !.beginLsid = beginLsid, !.endLsid = endLsid,
                              !.pc = "error", !.err = "Invalid lsid range."]
              ELSE [wv EXCEPT !.beginLsid = beginLsid, !.endLsid = endLsid,
                              !.lsid = beginLsid, !.pc = "loop"]
    /\ UNCHANGED notVerifier

\* One pass of the loop: the header at lsid is read, its lsid is compared,
\* its IOs are checked against the recipes, and lsid moves on.
WldevVerifier_pack ==
    /\ wv.pc = "loop" /\ wv.lsid < wv.endLsid /\ Len(wv.visited) < MaxVisits
    /\ \E logpackLsid \in Lsids, sizePb \in 0..MaxPackPb, recipeFound \in BOOLEAN :
        LET logh == [logpackLsid |-> logpackLsid, nextLogpackLsid |-> logpackLsid + sizePb]
            w == [wv EXCEPT !.visited = Append(@, wv.lsid), !.heads = Append(@, logh)] IN
        wv' = IF wv.lsid # logpackLsid
              THEN [w EXCEPT !.pc = "error", !.err = "wrong lsid"]
              ELSE IF sizePb > 1 /\ ~recipeFound
              THEN [w EXCEPT !.pc = "error", !.err = "Recipe not found."]
              ELSE [w EXCEPT !.lsid = logh.nextLogpackLsid]
    /\ UNCHANGED notVerifier

\* The loop is left: recipes may remain.
WldevVerifier_end ==
    /\ wv.pc = "loop" /\ ~(wv.lsid < wv.endLsid)
    /\ \E recipesLeft \in BOOLEAN :
        wv' = IF recipesLeft
              THEN [wv EXCEPT !.pc = "error", !.err = "There are still remaining recipes."]
              ELSE [wv EXCEPT !.pc = "done"]
    /\ UNCHANGED notVerifier

VerifierNext == WldevVerifier_run \/ WldevVerifier_pack \/ WldevVerifier_end

\* ============================================================== SeqMutexN
\* include/thread_util.hpp: a lock that up to max_ threads hold at once; a
\* thread that finds it full queues its own condition variable and waits on
\* it. mtx.th[t] is where thread t is: "idle", "waiting" (inside cvP->wait),
\* "notified" (woken, waiting to get mutex_ back) or "holding" (lock() has
\* returned, unlock() not yet called).
MaxLockers == 4     \* threads that use the lock
MaxLimit == 2       \* largest max_
Lockers == 1..MaxLockers

notMutex == <<avars, svars, fb, tp, bq, vfs, rw, pool, cd, ts, wv>>

\* SeqMutexN::SeqMutexN
MutexInit ==
    /\ \E max \in 1..MaxLimit :
        mtx = [max |-> max, counter |-> 0, waitQ |-> <<>>,
               th |-> [t \in Lockers |-> "idle"]]
    /\ bq = <<>> /\ vfs = <<>> /\ rw = <<>> /\ pool = <<>>
    /\ cd = <<>> /\ ts = <<>> /\ wv = <<>>
    /\ ArchiveIdle /\ StorageIdle /\ FbIdle /\ TpIdle

\* lock() up to its return or up to cvP->wait(lk), which gives mutex_ up.
SeqLock(t) ==
    /\ mtx.th[t] = "idle"
    /\ mtx' = IF ~(mtx.counter < mtx.max)
              THEN [mtx EXCEPT !.waitQ = Append(@, t), !.th[t] = "waiting"]
              ELSE [mtx EXCEPT !.counter = @ + 1, !.th[t] = "holding"]
    /\ UNCHANGED notMutex

\* The woken thread has mutex_ again: wait returns and lock() goes on to
\* counter_++ without looking at counter_ again.
SeqLockWake(t) ==
    /\ mtx.th[t] = "notified"
    /\ mtx' = [mtx EXCEPT !.counter = @ + 1, !.th[t] = "holding"]
    /\ UNCHANGED notMutex

SeqUnlock(t) ==
    /\ mtx.th[t] = "holding"
    /\ LET c == mtx.counter - 1 IN
        mtx' = IF c < mtx.max /\ mtx.waitQ # <<>>
               THEN [mtx EXCEPT !.counter = c, !.waitQ = Tail(@), !.th[t] = "idle",
                                !.th[Head(mtx.waitQ)] = "notified"]
               ELSE [mtx EXCEPT !.counter = c, !.th[t] = "idle"]
    /\ UNCHANGED notMutex

MutexNext == \E t \in Lockers : SeqLock(t) \/ SeqLockWake(t) \/ SeqUnlock(t)

\* ======================================================== ThreadRunnerPool
\* A ThreadRunnerPool, the client threads that call it and the worker
\* threads it starts. Every task, once started, runs to its end. The list
\* runners_ of thread objects and gcThread, which joins the threads that
\* have ended, are left out: they do not touch the tasks.
MaxTasks == 3
MaxCalls == 4
Clients == {1, 2}
Workers == 1..MaxTasks
MaxNumThreads == {0, 1, 2}

\* pool.readyQ, ready, running, done, id, maxNumThreads, numActiveThreads:
\* the pool's fields; made: the threads started; w: for each worker thread
\* pc ("none", "try": before tryRunTask, "run": inside task.run, "exit":
\* tryRunTask has returned false and done() was not called yet, "return":
\* done() has called the callback and operator() has not returned, "ended")
\* and its task; cl: for each client pc ("idle", or "waitFor"/"waitForAll":
\* it is in cv_.wait), the id it waits for and ntf (it was notified);
\* ncall, last: the number of calls made and the last call with its result;
\* cancelled: the tasks cancel returned true for or cancelAll removed;
\* ran: the tasks a worker has taken; finished: the tasks run to their end.
PoolInit ==
    /\ \E m \in MaxNumThreads :
        pool = [readyQ |-> <<>>, ready |-> {}, running |-> {}, done |-> {}, id |-> 0,
                maxNumThreads |-> m, numActiveThreads |-> 0, made |-> 0,
                w |-> [i \in Workers |-> [pc |-> "none", task |-> -1]],
                cl |-> [c \in Clients |-> [pc |-> "idle", id |-> -1, ntf |-> FALSE]],
                ncall |-> 0, last |-> [op |-> "none", id |-> -1, res |-> FALSE],
                cancelled |-> {}, ran |-> {}, finished |-> {}]
    /\ bq = <<>> /\ vfs = <<>> /\ rw = <<>> /\ ExtraIdle
    /\ ArchiveIdle /\ StorageIdle /\ FbIdle /\ TpIdle

notPool == <<avars, svars, fb, tp, bq, vfs, rw, xvars>>

\* A client can start a call: it is not inside a wait.
CanCall(c) == pool.cl[c].pc = "idle" /\ pool.ncall < MaxCalls
\* The pool p after a call of op with the argument id.
Called(op, id, p) ==
    [p EXCEPT !.ncall = @ + 1, !.last = [op |-> op, id |-> id, res |-> p.last.res]]

isReadyOrRunning(p, id) == id \in p.ready \/ id \in p.running
existsReadyOrRunning(p) == p.ready # {} \/ p.running # {}
\* Faulty variant: the limit is not looked at.
shouldMakeThread_Always(p) == TRUE
shouldMakeThread(p) == p.maxNumThreads = 0 \/ p.numActiveThreads < p.maxNumThreads

\* ThreadRunnerPool::add (addNolock, makeThread).
add(c) ==
    /\ CanCall(c)
    /\ pool.id < MaxTasks
    /\ LET p == [pool EXCEPT !.id = @ + 1, !.readyQ = Append(@, pool.id),
                             !.ready = @ \cup {pool.id}] IN
        pool' = Called("add", pool.id,
                       IF shouldMakeThread(p)
                       THEN [p EXCEPT !.w[pool.made + 1].pc = "try", !.made = @ + 1,
                                      !.numActiveThreads = @ + 1]
                       ELSE p)
    /\ UNCHANGED notPool

\* The sequence s without its elements equal to id.
RECURSIVE Without(_, _)
Without(s, id) ==
    IF s = <<>> THEN <<>>
    ELSE IF Head(s) = id THEN Without(Tail(s), id)
    ELSE <<Head(s)>> \o Without(Tail(s), id)

\* Faulty variant: the task is removed from ready_ and stays in readyQ_.
cancel_ReadyOnly(c, id) ==
    /\ CanCall(c)
    /\ LET found == \E k \in 1..Len(pool.readyQ) : pool.readyQ[k] = id IN
        pool' = Called("cancel", id,
                       [pool EXCEPT !.ready = @ \ {id},
                                    !.cancelled = IF found THEN @ \cup {id} ELSE @,
                                    !.last.res = found])
    /\ UNCHANGED notPool

\* ThreadRunnerPool::cancel.
cancel(c, id) ==
    /\ CanCall(c)
    /\ LET found == \E k \in 1..Len(pool.readyQ) : pool.readyQ[k] = id IN
        pool' = Called("cancel", id,
                       [pool EXCEPT !.ready = @ \ {id}, !.readyQ = Without(@, id),
                                    !.cancelled = IF found THEN @ \cup {id} ELSE @,
                                    !.last.res = found])
    /\ UNCHANGED notPool

\* ThreadRunnerPool::cancelAll.
cancelAll(c) ==
    /\ CanCall(c)
    /\ pool' = Called("cancelAll", -1,
                      [pool EXCEPT !.readyQ = <<>>, !.ready = {},
                                   !.cancelled = @ \cup {pool.readyQ[k] : k \in 1..Len(pool.readyQ)}])
    /\ UNCHANGED notPool

\* ThreadRunnerPool::gc.
gc(c) ==
    /\ CanCall(c)
    /\ pool' = Called("gc", -1, [pool EXCEPT !.done = {}])
    /\ UNCHANGED notPool

\* waitFor and waitForAll once they hold the lock, at the call or after a
\* wake-up: wait again, or return the results and take them out of done_.
WaitStep(p, c, op, id) ==
    IF (op = "waitFor" /\ isReadyOrRunning(p, id)) \/ (op = "waitForAll" /\ existsReadyOrRunning(p))
    THEN [p EXCEPT !.cl[c] = [pc |-> op, id |-> id, ntf |-> FALSE]]
    ELSE [p EXCEPT !.cl[c] = [pc |-> "idle", id |-> -1, ntf |-> FALSE],
                   !.done = IF op = "waitFor" THEN @ \ {id} ELSE {}]

waitFor(c, id) ==
    /\ CanCall(c)
    /\ pool' = Called("waitFor", id, WaitStep(pool, c, "waitFor", id))
    /\ UNCHANGED notPool

waitForAll(c) ==
    /\ CanCall(c)
    /\ pool' = Called("waitForAll", -1, WaitStep(pool, c, "waitForAll", -1))
    /\ UNCHANGED notPool

\* A notified client returns from cv_.wait and tests its condition again.
WaitWake(c) ==
    /\ pool.cl[c].pc # "idle"
    /\ pool.cl[c].ntf
    /\ pool' = WaitStep(pool, c, pool.cl[c].pc, pool.cl[c].id)
    /\ UNCHANGED notPool

\* Faulty variant: the task taken is not erased from ready_.
tryRunTask_KeepReady(i) ==
    /\ pool.w[i].pc = "try"
    /\ pool' = IF pool.readyQ = <<>>
               THEN [pool EXCEPT !.w[i].pc = "exit"]
               ELSE LET id == Head(pool.readyQ) IN
                    [pool EXCEPT !.readyQ = Tail(@),
                                 !.running = @ \cup {id}, !.ran = @ \cup {id},
                                 !.w[i] = [pc |-> "run", task |-> id]]
    /\ UNCHANGED notPool

\* TaskWorker::tryRunTask up to task.run: the first locked block.
tryRunTask(i) ==
    /\ pool.w[i].pc = "try"
    /\ pool' = IF pool.readyQ = <<>>
               THEN [pool EXCEPT !.w[i].pc = "exit"]
               ELSE LET id == Head(pool.readyQ) IN
                    [pool EXCEPT !.readyQ = Tail(@), !.ready = @ \ {id},
                                 !.running = @ \cup {id}, !.ran = @ \cup {id},
                                 !.w[i] = [pc |-> "run", task |-> id]]
    /\ UNCHANGED notPool

\* task.run returns and the second locked block of tryRunTask moves the
\* task to done_ and notifies cv_.
TaskEnd(i) ==
    /\ pool.w[i].pc = "run"
    /\ LET id == pool.w[i].task IN
        pool' = [pool EXCEPT !.running = @ \ {id}, !.done = @ \cup {id},
                             !.finished = @ \cup {id},
                             !.w[i] = [pc |-> "try", task |-> -1],
                             !.cl = [c \in Clients |->
                                        IF pool.cl[c].pc = "idle" THEN pool.cl[c]
                                        ELSE [pool.cl[c] EXCEPT !.ntf = TRUE]]]
    /\ UNCHANGED notPool

\* TaskWorker::operator() after its loop: done() calls the callback, which
\* decrements numActiveThreads_.
WorkerDone(i) ==
    /\ pool.w[i].pc = "exit"
    /\ pool' = [pool EXCEPT !.w[i].pc = "return", !.numActiveThreads = @ - 1]
    /\ UNCHANGED notPool

\* TaskWorker::operator() returns and the thread ends.
WorkerReturn(i) ==
    /\ pool.w[i].pc = "return"
    /\ pool' = [pool EXCEPT !.w[i].pc = "ended"]
    /\ UNCHANGED notPool

PoolNext ==
    \/ \E c \in Clients : add(c)
    \/ \E c \in Clients, id \in 0..MaxTasks : cancel(c, id)
    \/ \E c \in Clients : cancelAll(c)
    \/ \E c \in Clients : gc(c)
    \/ \E c \in Clients, id \in 0..MaxTasks : waitFor(c, id)
    \/ \E c \in Clients : waitForAll(c)
    \/ \E c \in Clients : WaitWake(c)
    \/ \E i \in Workers : tryRunTask(i)
    \/ \E i \in Workers : TaskEnd(i)
    \/ \E i \in Workers : WorkerDone(i)
    \/ \E i \in Workers : WorkerReturn(i)

\* ---------------------------------------------------------- specifications
\* The archive daemon alone: the storage daemon's volume stays as constructed.
Init == ArchiveInit /\ StorageIdle /\ FbIdle /\ TpIdle /\ UtilIdle
Spec == Init /\ [][Next]_vars

\* The archive daemon's handler threads scheduled fairly: a stop that can go
\* on goes on, and a merge or apply under way ends.
SpecArchiveStop ==
    /\ Init /\ [][StopNext]_vars
    /\ \A c \in Conns : WF_vars(c2aStopWait(c)) /\ WF_vars(c2aStopBody(c))
    /\ \A a \in {aMerge, aApply} : WF_vars(EndAction(a))

\* The storage daemon alone, its worker threads scheduled fairly: a handler
\* that can take a step eventually takes one.
SInit == StorageInit /\ ArchiveIdle /\ FbIdle /\ TpIdle /\ UtilIdle
SpecStorageFair == SInit /\ [][SNext]_vars /\ \A c \in Conns : WF_vars(StorageRun(c))

\* The full backup's request and chunk loop alone.
FbSpecInit == FbInit /\ ArchiveIdle /\ StorageIdle /\ TpIdle /\ UtilIdle
SpecFullBkp == FbSpecInit /\ [][FbNext]_vars

\* The compressor test's four threads.
SpecPipe == PipeInit /\ [][PipeNext]_vars

\* A Sender and a Receiver over one connection, and their callers.
SpecLog == LogInit /\ [][LogNext]_vars

\* The Sender's and the Receiver's tests of a header's pbs and salt.
SpecParams == ParamsInit /\ [][ParamsNext]_vars

\* A BoundedQueue and its threads; a notified thread eventually gets the
\* lock back.
SpecQueue == QueueInit /\ [][QueueNext]_vars /\ \A t \in QThreads : WF_vars(QWake(t))

\* A VirtualFullScanner read to its end by calls of readSome.
SpecScan == ScanInit /\ [][ScanNext]_vars

\* The same reads made on a seekable and on a non-seekable base.
SpecScanPair == PairInit /\ [][PairNext]_vars

\* A buffer compressed and uncompressed in one codec mode.
SpecCodec == CodecInit /\ [][CodecNext]_vars

\* Calls of addAndSleepIfNecessary on one stabilizer; a thread inside the
\* loop goes on, and its clock goes on with it.
SpecStabilizer == StabilizerInit /\ [][StabilizerNext]_vars /\ WF_vars(sleepLoop)

\* One run of verify_wldev.
SpecVerifier == VerifierInit /\ [][VerifierNext]_vars

\* Threads locking and unlocking one SeqMutexN.
SpecMutex == MutexInit /\ [][MutexNext]_vars

\* A RequestWorker serving one connection.
SpecWorker == WorkerInit /\ [][WorkerNext]_vars

\* A ThreadRunnerPool in use; its worker threads and its notified waiting
\* clients are scheduled fairly.
SpecPool ==
    /\ PoolInit /\ [][PoolNext]_vars
    /\ \A i \in Workers : WF_vars(tryRunTask(i)) /\ WF_vars(TaskEnd(i)) /\ WF_vars(WorkerDone(i))
    /\ \A i \in Workers : WF_vars(WorkerReturn(i))
    /\ \A c \in Clients : WF_vars(WaitWake(c))

\* ============================================================= properties

\* A handler holds an open StateMachineTransaction: it is under way and has
\* recorded the state it began from.
InTran(r) == r.pc \notin {"idle", "done", "failed"} /\ r.from # "none"

\* The transient state each handler's transaction passes through.
Via(h) ==
    CASE h = "init-vol" -> atInitVol
      [] h = "clear-vol" -> atClearVol
      [] h = "start" -> atStart
      [] h = "stop" -> atStop
      [] h = "full-sync" -> atFullSync
      [] h = "wdiff-transfer" -> atWdiffRecv
      [] OTHER -> "none"

\* The messages a handler has written to its socket.
Msgs(r) == {r.sent[i] : i \in 1..Len(r.sent)}

\* C1 (as the specification states it): while any of the counters Merge,
\* Apply, Restore, ReplSync is non-zero, no handler moves the state machine
\* into a transient state.
C1_NoTransientWhileActionRuns ==
    [][(sm' # sm /\ sm' \in TransientStates) => NoArchiveActionRunning]_vars

\* C2 (as the specification states it): stop takes Archived -> Stop only when
\* no merge, apply, restore or repl-sync action is in flight; in particular
\* never while a restore that c2aRestoreServer started is still running.
C2_StopWaitsForRestore ==
    [][(sm = aArchived /\ sm' = atStop) =>
        /\ NoArchiveActionRunning
        /\ \A c \in Conns : ~(conn[c].h = "restore" /\ conn[c].pc = "run")]_vars

\* C3: while a handler's transaction is open the state is its transient
\* state, and when the handler fails before commit the state goes back to
\* the state the transaction began from; the target state is not seen.
C3_FailureRollsBack ==
    /\ [](\A c \in Conns : InTran(conn[c]) => sm = Via(conn[c].h))
    /\ [][\A c \in Conns :
            (InTran(conn[c]) /\ conn'[c].pc = "failed") => sm' = conn[c].from]_vars

C3_Witness ==
    \E c \in Conns :
        /\ conn[c].h = "start" /\ conn[c].pc = "failed"
        /\ conn[c].from = aStopped
        /\ sm = aStopped

\* C4: at most one transaction is open on the volume; a handler enters its
\* transient state only when no other holds one, and an attempt that does
\* not enter leaves the state as it was.
C4_OneTransaction ==
    /\ [](Cardinality({c \in Conns : InTran(conn[c])}) <= 1)
    /\ [][\A c \in Conns :
            (~InTran(conn[c]) /\ conn'[c] # conn[c]) =>
                IF InTran(conn'[c])
                THEN /\ \A d \in Conns \ {c} : ~InTran(conn[d])
                     /\ sm' = Via(conn'[c].h)
                ELSE sm' = sm]_vars

C4_Witness ==
    \E c, d \in Conns :
        /\ c # d
        /\ InTran(conn[c]) /\ conn[c].h \in {"init-vol", "wdiff-transfer"}
        /\ conn[d].h = conn[c].h /\ conn[d].pc = "failed" /\ conn[d].from = "none"
        /\ sm = Via(conn[c].h)

\* C5: every change of the in-memory state is a registered (from, to) pair
\* or the rollback of an open transaction to the state it began from; and a
\* clear-vol that succeeds began from SyncReady or Stopped and ends in Clear.
C5_OnlyRegisteredTransitions ==
    [][/\ sm' # sm =>
            \/ <<sm, sm'>> \in ArchiveTbl
            \/ \E c \in Conns : InTran(conn[c]) /\ ~InTran(conn'[c]) /\ sm' = conn[c].from
       /\ \A c \in Conns :
            (conn[c].h = "clear-vol" /\ conn[c].pc = "body" /\ conn'[c].pc = "done") =>
                /\ conn[c].from \in {aSyncReady, aStopped}
                /\ sm = atClearVol /\ sm' = aClear]_vars

C5_Witness ==
    \E c \in Conns :
        /\ conn[c].h = "clear-vol" /\ conn[c].pc = "done"
        /\ conn[c].from = aStopped
        /\ sm = aClear /\ ~vol.dir


\* C6 (as the specification states it): a stop request that the storage daemon
\* accepts while the volume is Master or Slave, with no full-sync, hash-sync,
\* wlog-send or wlog-remove running, leads to the volume stopped (Master to
\* Stopped, Slave to SyncReady), the new state persisted, and an Ack sent.
C6_StopLeadsToStopped ==
    \A c \in Conns :
        (sconn[c].h = "stop" /\ sconn[c].pc = "loop" /\ ssm \in {sMaster, sSlave})
            ~> (/\ sconn[c].h = "stop" /\ sconn[c].pc = "done"
                /\ "ack" \in {sconn[c].sent[i] : i \in 1..Len(sconn[c].sent)}
                /\ ssm \in {sStopped, sSyncReady}
                /\ svol.state = ssm)

\* C7 (as the specification states it): wdiff-transfer replies "ok" only when
\* the volume is in Archived, and with the "ok" it takes the volume into
\* WdiffRecv.
C7_OkOnlyInArchived ==
    [][\A c \in Conns :
        (/\ conn[c].pc = "idle"
         /\ conn'[c].h = "wdiff-transfer"
         /\ "ok" \in Msgs(conn'[c])) => (sm = aArchived /\ sm' = atWdiffRecv)]_vars

\* C8: a wdiff-transfer request that the handler rejects gets exactly one
\* reply, the tag of the first check that failed, not "ok"; state, stop state,
\* action counters, manager and volume directory stay as they were.  And a
\* request is taken into the receiving phase only if none of the checks fails.
C8_RejectChangesNothing ==
    [][\A c \in Conns :
        (conn[c].pc = "idle" /\ conn'[c].h = "wdiff-transfer") =>
            LET r == conn'[c]
                rel == getRelation(getLatestSnapshot(vol.base, diffMgr), r.diff)
            IN  /\ r.pc = "done" =>
                    /\ UNCHANGED <<sm, stopState, ac, diffMgr, vol>>
                    /\ Len(r.sent) = 1
                    /\ r.sent[1] \in {"archive-not-found", "stopped", "different-uuid",
                                      "too-new-diff", "too-old-diff", "not-applicable-diff"}
                    /\ r.sent[1] = "archive-not-found" <=> ~vol.dir
                    /\ r.sent[1] = "stopped" <=> (vol.dir /\ sm = aStopped)
                    /\ r.sent[1] \in {"too-new-diff", "too-old-diff", "not-applicable-diff"}
                        => r.sent[1] = rel
                /\ r.pc = "recv" =>
                    /\ vol.dir /\ sm = aArchived
                    /\ rel = "applicable-diff"]_vars

C8_Witness ==
    \E c \in Conns :
        /\ conn[c].h = "wdiff-transfer" /\ conn[c].pc = "done"
        /\ conn[c].sent = <<"too-new-diff">>
        /\ sm = aArchived /\ vol.state = aArchived
        /\ conn[c].diff \notin diffMgr /\ conn[c].diff \notin vol.wdiffs

\* C9: every diff the manager holds has its file under its final name in the
\* volume directory.  The manager gains a diff only in the step that commits
\* WdiffRecv -> Archived for the transfer of that diff, whose file is already
\* in place (or when reload-metadata reads the directory); a transfer that
\* fails adds nothing.
C9_ManagerHoldsPublishedDiffs ==
    /\ [](diffMgr \subseteq vol.wdiffs)
    /\ [][/\ \A d \in diffMgr' \ diffMgr :
                /\ d \in vol.wdiffs
                /\ \/ \E c \in Conns :
                        /\ conn[c].h = "wdiff-transfer" /\ conn[c].pc = "commit"
                        /\ conn[c].diff = d
                        /\ conn'[c].pc = "done"
                        /\ sm = atWdiffRecv /\ sm' = aArchived
                   \/ \E c \in Conns :
                        conn[c].pc = "idle" /\ conn'[c].h = "reload-metadata"
          /\ \A c \in Conns :
                (/\ conn[c].h = "wdiff-transfer" /\ conn[c].pc \in {"recv", "commit"}
                 /\ conn'[c].pc = "failed") => diffMgr' = diffMgr]_vars

C9_Witness ==
    \E c \in Conns :
        /\ conn[c].h = "wdiff-transfer" /\ conn[c].pc = "done"
        /\ "ack" \in Msgs(conn[c])
        /\ conn[c].diff \in diffMgr /\ conn[c].diff \in vol.wdiffs
        /\ sm = aArchived

C11_AckAfterPersistAndCommit ==
    /\ [](sm = aArchived => (vol.dir /\ vol.base # NoSnap /\ vol.uuid # 0))
    /\ [][\A c \in Conns :
            (/\ conn'[c].h = "full-sync"
             /\ "ack" \in Msgs(conn'[c]) /\ "ack" \notin Msgs(conn[c])) =>
                /\ conn[c].pc = "recv" /\ conn[c].rem = 0 /\ vol'.lv >= 1
                /\ vol'.base # NoSnap /\ vol'.uuid # 0 /\ vol'.state = aArchived
                /\ sm = atFullSync /\ sm' = aArchived]_vars

C11_Witness ==
    \E c \in Conns :
        /\ conn[c].h = "full-sync" /\ conn[c].pc = "done"
        /\ conn[c].sent = <<"ok", "ack">>
        /\ sm = aArchived /\ vol.state = aArchived
        /\ vol.base # NoSnap /\ vol.uuid # 0 /\ vol.lv >= 1

C15_StoppingRejectsNewRequests ==
    [][\A c \in Conns :
        (/\ conn[c].pc = "idle"
         /\ conn'[c].h \in {"full-sync", "restore", "wdiff-transfer", "reload-metadata"}
         /\ stopState # NotStopping) =>
            /\ conn'[c].pc = "failed"
            /\ "ok" \notin Msgs(conn'[c]) /\ "ack" \notin Msgs(conn'[c])
            /\ UNCHANGED <<sm, stopState, ac, diffMgr, vol>>]_vars

C15_Witness ==
    \E c \in Conns :
        /\ conn[c].h = "restore" /\ conn[c].pc = "failed"
        /\ conn[c].sent = <<>>
        /\ stopState # NotStopping
        /\ sm = aArchived
        /\ ac[VolId] = 0

\* ceil(a / b)
Ceil(a, b) == (a + b - 1) \div b

\* C13 (as the specification states it): for every sizeLb and bulkLb > 0,
\* bulkLb >= 65536 included, each pass of the chunk loop processes
\* min(bulkLb, remaining) blocks, and the loop ends after exactly
\* ceil(sizeLb / bulkLb) passes.
C13_ChunkLoopExact ==
    /\ [](fb.pc = "done" => fb.c = Ceil(fb.sizeLb, fb.bulkLb))
    /\ [][(fb.pc = "loop" /\ fb'.pc = "loop") =>
            /\ fb'.remainingLb = fb.remainingLb - Min(fb.bulkLb, fb.remainingLb)
            /\ fb'.remainingLb < fb.remainingLb]_vars

\* C14: the controller throws on an explicit bulkLb of zero instead of
\* sending it; and the archive's full-sync handler, given bulkLb = 0, fails in
\* its first step: no handler with bulkLb = 0 gets as far as the transaction
\* or the LV, and the step in which a full-sync request arrives changes
\* nothing of the volume.
C14_ZeroBulkRejected ==
    /\ \A p \in FullBkpParams, d \in DefaultBulkLbs :
            (Len(p) = 2 /\ atoi(p[2]) = 0) => c2sFullBkpClient(p, d) = "throw"
    /\ [](\A c \in Conns :
            (conn[c].h = "full-sync" /\ conn[c].pc \in {"tran", "create", "recv"})
                => conn[c].bulk # 0)
    /\ [][\A c \in Conns :
            (conn[c].pc = "idle" /\ conn'[c].h = "full-sync")
                => UNCHANGED <<sm, stopState, ac, diffMgr, vol>>]_vars

C14_Witness ==
    \E c \in Conns :
        /\ conn[c].h = "full-sync" /\ conn[c].pc = "failed"
        /\ conn[c].rem > 0 /\ conn[c].bulk = 0
        /\ conn[c].sent = <<>>
        /\ sm = aSyncReady /\ vol = FreshVol

\* C17: in the compressor test's pipeline (Producer -> q0 -> CompressWorker ->
\* q1 -> UncompressWorker -> q2 -> Consumer, the consumer looping on
\* while (!inQ.isEnd()) inQ.pop()) no thread ever raises an error, and a
\* consumer that has finished has popped exactly the producer's items, in the
\* producer's order.
C17_TestPipelineClean ==
    /\ \A t \in Threads : tp.pc[t] # "error"
    /\ tp.pc["consumer"] = "done" => tp.todo = <<>> /\ tp.popped = tp.pushed


\* C16: whatever headers and IOs are pushed into the Sender, what popHeader
\* and popIo deliver is the same messages, unchanged and in the same order,
\* none lost and none twice, in every interleaving of the four workers; and
\* when popHeader reports the end of the stream, the sender has called sync()
\* and every message pushed has been delivered.
C16_DeliveredInOrder ==
    /\ Len(tp.popped) <= Len(tp.pushed)
    /\ \A i \in 1..Len(tp.popped) : tp.popped[i] = tp.pushed[i]
    /\ tp.pc["consumer"] = "end" =>
            /\ tp.pc["producer"] \in {"joining", "synced"}
            /\ tp.popped = tp.pushed

C16_Witness ==
    /\ tp.pc["consumer"] = "end"
    /\ tp.pc["producer"] = "synced"
    /\ Len(tp.popped) = 4
    /\ \E i \in 1..4 : tp.popped[i].recs = <<"discard", "normal">>


\* C18: what the send worker has written to the socket is (NEXT, message)
\* pairs, the messages in the order they were pushed, ended by at most one
\* marker that is the last thing written: END only after sync() and with q0
\* and q1 drained, ERROR only by a worker that failed; and when sync() has
\* returned, END has been written.
C18_StreamTerminatedOnce ==
    LET n == Len(tp.sock) IN
    /\ \A i \in 1..(n - 1) : tp.sock[i].ctl = "NEXT"
    /\ \A i \in 1..n : tp.sock[i].ctl = "NEXT" =>
            i <= Len(tp.pushed) /\ uncompress(tp.sock[i].msg) = tp.pushed[i]
    /\ n > 0 /\ tp.sock[n].ctl = "END" =>
            /\ tp.pc["producer"] \in {"joining", "synced"}
            /\ tp.q["q0"].items = <<>> /\ tp.q["q1"].items = <<>>
            /\ n = Len(tp.pushed) + 1
    /\ n > 0 /\ tp.sock[n].ctl = "ERROR" => tp.pc["send"] = "error"
    /\ tp.pc["producer"] = "synced" => n > 0 /\ tp.sock[n].ctl = "END"


\* C19: popHeader returns false only when the receive worker has read END
\* and every message received before it has been consumed, so never after
\* an ERROR or on a lost connection; and once the receiver's output queue
\* has failed, the next popHeader, or popIo of a record with data, raises.
C19_PeerErrorRaises ==
    /\ [](tp.pc["consumer"] = "end" =>
            /\ tp.pc["recv"] = "done"
            /\ tp.rd = Len(tp.sock)
            /\ tp.sock[tp.rd].ctl = "END"
            /\ Len(tp.popped) = Len(tp.sock) - 1)
    /\ [][(/\ tp.q["r1"].isError
           /\ tp.pc["consumer"] = "run"
           /\ \/ tp.rcv.idx = Len(tp.rcv.recs)
              \/ hasDataForChecksum(tp.rcv.recs[tp.rcv.idx + 1])
           /\ tp'.pc["consumer"] # "run" \/ tp'.rcv # tp.rcv)
          => tp'.pc["consumer"] = "raised"]_vars

C19_Witness ==
    /\ tp.pc["consumer"] = "raised"
    /\ tp.pc["recv"] = "error"
    /\ tp.rd = Len(tp.sock)
    /\ tp.rd > 1
    /\ tp.sock[tp.rd].ctl = "ERROR"
    /\ Len(tp.popped) >= 1


\* The messages that the packs whose headers are in s make: one for each
\* header and one for each of its records that has data.
RECURSIVE PackMsgs(_)
PackMsgs(s) ==
    IF s = <<>> THEN 0
    ELSE PackMsgs(SubSeq(s, 1, Len(s) - 1))
         + (IF s[Len(s)].kind # "hdr" THEN 0
            ELSE 1 + Cardinality({i \in DOMAIN s[Len(s)].recs :
                                    hasDataForChecksum(s[Len(s)].recs[i])}))

\* C20: between two packs the sender has pushed, and the receiver has
\* popped, exactly one message for each header and one for each record with
\* data (1 + k for a pack), so the message that the next popHeader takes is
\* a pack header, and the message that a popIo of a record with data takes
\* is that record's blocks.
C20_PackFraming ==
    /\ tp.snd.idx = Len(tp.snd.recs) => Len(tp.pushed) = PackMsgs(tp.pushed)
    /\ tp.rcv.idx = Len(tp.rcv.recs) => Len(tp.popped) = PackMsgs(tp.popped)
    /\ tp.pc["consumer"] = "run" /\ tp.q["r1"].items # <<>> =>
            LET m == Head(tp.q["r1"].items) IN
            IF tp.rcv.idx = Len(tp.rcv.recs) THEN m.kind = "hdr"
            ELSE hasDataForChecksum(tp.rcv.recs[tp.rcv.idx + 1]) =>
                    m = Io(tp.rcv.packs, tp.rcv.idx + 1)

C20_Witness ==
    /\ tp.pc["consumer"] = "run"
    /\ tp.rcv.packs = 2
    /\ tp.rcv.idx = Len(tp.rcv.recs)
    /\ Len(tp.popped) = 4
    /\ tp.popped[1].recs = <<"discard", "normal">>
    /\ tp.popped[3].recs = <<"normal", "padding">>


Ends(t, op) ==
    /\ bq'.th[t].pc = "idle" /\ bq'.th[t].op = op
    /\ bq'.th[t] # bq.th[t] \/ bq.th[t].pc # "idle"

\* C22: the queue never holds more than its capacity; a push starts to
\* wait only on a full, open queue, a waiting push puts its item only
\* after a pop has made room, and it ends otherwise only on a queue that
\* is closed or in error.
C22_PushBounded ==
    /\ [](Len(bq.q.items) <= QSize)
    /\ [][\A t \in QThreads :
            /\ bq.th[t].pc = "idle" /\ bq'.th[t].pc = "push"
                => Len(bq.q.items) = QSize /\ ~bq.q.closed /\ ~bq.q.isError
            /\ Ends(t, "push") /\ bq'.th[t].res = "ok"
                => /\ Len(bq.q.items) < QSize
                   /\ bq'.q.items = Append(bq.q.items, bq'.n)
                   /\ bq'.th[t].waited => bq.popped # <<>>
            /\ Ends(t, "push") /\ bq'.th[t].res # "ok"
                => bq.q.closed /\ bq'.q.items = bq.q.items]_vars
C22_Witness ==
    \E t \in QThreads :
        /\ bq.th[t].pc = "idle" /\ bq.th[t].op = "push" /\ bq.th[t].res = "ok"
        /\ bq.th[t].waited
        /\ Len(bq.q.items) = QSize

\* C23: on a closed queue not in error every push that ends, a waiting
\* one included, fails with ClosedError and puts nothing; sync wakes the
\* waiting threads; a pop returns the oldest item while there is one and
\* fails with ClosedError only on the empty queue; items come out in the
\* order they went in.
C23_SyncCloses ==
    /\ [](bq.popped \o bq.q.items = [i \in 1..bq.n |-> i])
    /\ [][\A t \in QThreads :
            /\ ~bq.q.closed /\ bq'.q.closed /\ bq.th[t].pc # "idle"
                => bq'.th[t].ntf
            /\ bq.q.closed /\ ~bq.q.isError /\ Ends(t, "push")
                => bq'.th[t].res = "closed" /\ bq'.q.items = bq.q.items
            /\ bq.q.closed /\ ~bq.q.isError /\ Ends(t, "pop")
                => IF bq.q.items # <<>>
                   THEN /\ bq'.th[t].res = "ok"
                        /\ bq'.th[t].item = Head(bq.q.items)
                        /\ bq'.q.items = Tail(bq.q.items)
                   ELSE bq'.th[t].res = "closed"]_vars
    /\ [](\A t \in QThreads : bq.q.closed /\ ~bq.q.isError => bq.th[t].pc = "idle" \/ bq.th[t].ntf)
C23_Witness ==
    /\ bq.q.closed /\ ~bq.q.isError
    /\ bq.q.items = <<>> /\ Len(bq.popped) = QSize
    /\ bq.th[1].op = "push" /\ bq.th[1].waited /\ bq.th[1].res = "closed"
    /\ bq.th[2].op = "pop" /\ bq.th[2].res = "closed" /\ bq.th[2].pc = "idle"

\* C24: on a queue in error every push, pop and sync that ends raises the
\* queue error and leaves the items alone, error wakes the waiting
\* threads, and no thread stays in a wait.
C24_ErrorWakes ==
    /\ [][\A t \in QThreads :
            /\ ~bq.q.isError /\ bq'.q.isError /\ bq.th[t].pc # "idle"
                => bq'.th[t].ntf
            /\ bq.q.isError /\ (Ends(t, "push") \/ Ends(t, "pop") \/ Ends(t, "sync"))
                => bq'.th[t].res = "error" /\ bq'.q = bq.q /\ bq'.popped = bq.popped]_vars
    /\ \A t \in QThreads : bq.q.isError ~> bq.th[t].pc = "idle"
C24_Witness ==
    /\ bq.q.isError /\ bq.q.items # <<>>
    /\ bq.th[1].op = "push" /\ bq.th[1].waited /\ bq.th[1].res = "error"
    /\ bq.th[1].pc = "idle"
    /\ bq.th[2].op = "pop" /\ bq.th[2].res = "error"

\* The block at address i of the base overlaid by the records recs.
Overlaid(recs, i) ==
    IF \E r \in 1..Len(recs) : recs[r].io_address <= i /\ i < recs[r].io_address + recs[r].io_blocks
    THEN LET r == CHOOSE r \in 1..Len(recs) :
                    recs[r].io_address <= i /\ i < recs[r].io_address + recs[r].io_blocks IN
         IF recs[r].type = "normal" THEN <<"io", r, i - recs[r].io_address>> ELSE <<"zero">>
    ELSE <<"base", i>>

\* The overlay's records lie inside the blocks the base has, whole or not.
InsideBase(v) ==
    \A r \in 1..Len(v.recs) :
        (v.recs[r].io_address + v.recs[r].io_blocks) * LOGICAL_BLOCK_SIZE
            < v.len + LOGICAL_BLOCK_SIZE

\* C25: on a base of whole blocks with the overlay inside it readSome never throws, what it has
\* returned is always the beginning of the overlaid image, and it returns 0
\* exactly when all N blocks were returned.
C25_StreamIsOverlay ==
    vfs.len % LOGICAL_BLOCK_SIZE = 0 /\ InsideBase(vfs) =>
        /\ vfs.pc # "error"
        /\ Len(vfs.out) <= vfs.len \div LOGICAL_BLOCK_SIZE
        /\ \A i \in 1..Len(vfs.out) : vfs.out[i] = Overlaid(vfs.recs, i - 1)
        /\ vfs.pc = "eof" => Len(vfs.out) = vfs.len \div LOGICAL_BLOCK_SIZE
        /\ vfs.addr = Len(vfs.out)
C25_Witness ==
    /\ vfs.pc = "eof" /\ Len(vfs.out) = MaxBlocks
    /\ vfs.out[1][1] = "base" /\ vfs.out[2][1] = "io" /\ vfs.out[3][1] = "zero"
    /\ ~vfs.seekable

\* C26: on a base that ends inside a block the stream does not end by
\* readSome returning 0.
C26_MidBlockEofFails ==
    vfs.len % LOGICAL_BLOCK_SIZE # 0 /\ InsideBase(vfs) => vfs.pc # "eof"

\* C27: when the protocol name read is neither "shutdown" nor in the
\* handler map, or the version differs, no handler is invoked, "ok" is
\* never written, what is written is the server id and then the error
\* text (all of it unless the connection is lost), and the socket is
\* closed at the end.
C27_BadRequestRefused ==
    LET text == IF ~rw.verSame THEN "version differ c/s" ELSE "bad protocol"
        full == <<"serverId", text>> IN
    rw.protocolName # "" /\ (~rw.verSame \/ rw.protocolName \notin rw.handlers \cup {shutdownCN}) =>
        /\ rw.handled = "none"
        /\ Len(rw.sent) <= 2
        /\ \A i \in 1..Len(rw.sent) : rw.sent[i] = full[i]
        /\ rw.pc \in {"close", "done"} /\ ~rw.broken => rw.sent = full
        /\ rw.pc = "done" => rw.closed
C27_Witness ==
    /\ rw.pc = "done" /\ rw.closed
    /\ rw.protocolName = "bogus" /\ rw.verSame /\ "status" \in rw.handlers
    /\ rw.sent = <<"serverId", "bad protocol">>

C29_TasksComplete ==
    /\ \A id \in 0..(MaxTasks - 1) :
        id \in pool.ready ~> (id \in pool.finished \/ id \in pool.cancelled)
    /\ \A c \in Clients :
        pool.cl[c].pc = "waitFor" /\ pool.cl[c].id \notin pool.cancelled
            ~> (pool.cl[c].pc = "idle" \/ pool.cl[c].id \in pool.cancelled)
    /\ \A c \in Clients :
        pool.cl[c].pc = "waitForAll" /\ pool.cancelled = {}
            ~> (pool.cl[c].pc = "idle" \/ pool.cancelled # {})

\* C30: cancel returns true exactly when the task is in the ready queue
\* and then takes it out of readyQ_ and ready_; when it returns false it
\* changes nothing; a cancelled task is never taken by a worker and is
\* never in running_ or done_.
C30_CancelOnlyReady ==
    /\ [](pool.cancelled \cap (pool.ran \cup pool.running \cup pool.done \cup pool.finished) = {})
    /\ [](pool.ready = {pool.readyQ[k] : k \in 1..Len(pool.readyQ)})
    /\ [][pool'.ncall = pool.ncall + 1 /\ pool'.last.op = "cancel" =>
            LET id == pool'.last.id
                inQ == \E k \in 1..Len(pool.readyQ) : pool.readyQ[k] = id IN
            /\ pool'.last.res = inQ
            /\ pool'.running = pool.running /\ pool'.done = pool.done /\ pool'.w = pool.w
            /\ pool'.ready = pool.ready \ {id}
            /\ \A k \in 1..Len(pool'.readyQ) : pool'.readyQ[k] # id
            /\ ~inQ => pool'.readyQ = pool.readyQ /\ pool'.ready = pool.ready]_vars
C30_Witness ==
    /\ pool.last = [op |-> "cancel", id |-> 1, res |-> TRUE]
    /\ pool.cancelled = {1}
    /\ pool.finished = {0, 2}
    /\ \A i \in Workers : pool.w[i].pc \in {"none", "ended"}

\* C31: between the pool's locked blocks readyQ_ and ready_ hold the same
\* ids, each once, and no id is in two of ready_, running_ and done_; an id
\* enters ready_ only as the new id of add, running_ only from the head of
\* readyQ_, done_ only from running_ and only once; it leaves ready_ only
\* to running_ or by cancel or cancelAll, running_ only to done_, and done_
\* only by a call that hands the results out.
C31_TaskLifecycle ==
    /\ [](/\ pool.ready = {pool.readyQ[k] : k \in 1..Len(pool.readyQ)}
          /\ Cardinality(pool.ready) = Len(pool.readyQ)
          /\ pool.ready \cap pool.running = {}
          /\ pool.ready \cap pool.done = {}
          /\ pool.running \cap pool.done = {})
    /\ [][\A id \in 0..MaxTasks :
            /\ id \in pool'.ready \ pool.ready
                => id = pool.id /\ pool'.id = id + 1 /\ pool'.last.op = "add"
            /\ id \in pool'.running \ pool.running
                => pool.readyQ # <<>> /\ id = Head(pool.readyQ)
            /\ id \in pool'.done \ pool.done
                => id \in pool.running /\ id \notin pool.finished
            /\ id \in pool.ready \ pool'.ready
                => \/ id \in pool'.running
                   \/ id \in pool'.cancelled /\ pool'.last.op \in {"cancel", "cancelAll"}
                        /\ pool'.ncall = pool.ncall + 1
            /\ id \in pool.running \ pool'.running => id \in pool'.done
            /\ id \in pool.done \ pool'.done
                => \/ pool'.ncall = pool.ncall + 1 /\ pool'.last.op \in {"gc", "waitForAll"}
                   \/ pool'.ncall = pool.ncall + 1 /\ pool'.last = [pool'.last EXCEPT !.op = "waitFor", !.id = id]
                   \/ \E c \in Clients : pool.cl[c].pc # "idle" /\ pool'.cl[c].pc = "idle"]_vars
C31_Witness ==
    /\ pool.finished = {0} /\ pool.done = {}
    /\ pool.cancelled = {1}
    /\ pool.ready = {} /\ pool.running = {}
    /\ pool.last.op = "waitFor" /\ pool.last.id = 0

\* The worker threads that have not called done(), and those that have not
\* returned from operator().
ActiveWorkers == {i \in Workers : pool.w[i].pc \in {"try", "run", "exit"}}
LiveWorkers == {i \in Workers : pool.w[i].pc \in {"try", "run", "exit", "return"}}
\* The ids in readyQ_ are in the order of add.
ReadyInOrder == \A j, k \in 1..Len(pool.readyQ) : j < k => pool.readyQ[j] < pool.readyQ[k]

\* C40 as stated: with a limit n > 0 at most n worker threads are alive,
\* at most n tasks are in running_, numActiveThreads_ does not underflow
\* and tasks leave readyQ_ in the order of add.
C40_AtMostNLive ==
    /\ [](pool.maxNumThreads > 0 =>
            /\ Cardinality(LiveWorkers) <= pool.maxNumThreads
            /\ Cardinality(pool.running) <= pool.maxNumThreads)
    /\ [](pool.numActiveThreads >= 0 /\ ReadyInOrder)

\* C40 corrected: with a limit n > 0 at most n worker threads have not yet
\* called done() (a thread that has is still alive until operator()
\* returns), and these are the threads numActiveThreads_ counts, so it
\* never underflows; at most n tasks are in running_; a task taken by a
\* worker is the oldest in readyQ_ and older than every task left there.
C40_AtMostNActive ==
    /\ [](pool.maxNumThreads > 0 =>
            /\ Cardinality(ActiveWorkers) <= pool.maxNumThreads
            /\ Cardinality(pool.running) <= pool.maxNumThreads)
    /\ [](pool.numActiveThreads = Cardinality(ActiveWorkers) /\ ReadyInOrder)
    /\ [][\A id \in pool'.running \ pool.running :
            \A k \in 1..Len(pool'.readyQ) : id < pool'.readyQ[k]]_vars
C40_Witness ==
    /\ pool.maxNumThreads = 1
    /\ Cardinality(LiveWorkers) = 2 /\ Cardinality(ActiveWorkers) = 1
    /\ pool.running = {1} /\ pool.finished = {0} /\ pool.ready = {2}

\* C38: whenever readSome is called, and when it has returned 0, addr_ is
\* the number of blocks returned and the base reader is at block addr_;
\* offInIo_ is at most the record's io_blocks; after fillDiffIo a record
\* that remains starts at or after addr_ (the asserts hold); readSome
\* returns 0 only with the base reader at or past the base's end.
C38_ScannerInvariant ==
    vfs.pc \in {"run", "eof"} =>
        /\ vfs.addr = Len(vfs.out)
        /\ vfs.pos = vfs.addr * LOGICAL_BLOCK_SIZE
        /\ vfs.offInIo <= vfs.rec.io_blocks
        /\ LET v == fillDiffIo(vfs) IN
            /\ v.offInIo <= v.rec.io_blocks
            /\ ~(v.emptyWdiff \/ v.isEndDiff) =>
                /\ v.addr <= v.rec.io_address + v.offInIo
                /\ v.offInIo < v.rec.io_blocks
        /\ vfs.pc = "eof" => vfs.len <= vfs.pos
C38_Witness ==
    /\ vfs.pc = "run" /\ Len(vfs.recs) = 2
    /\ vfs.rec = vfs.recs[2] /\ vfs.offInIo = 1 /\ vfs.rec.io_blocks = 2
    /\ vfs.addr = 2 /\ vfs.rec.io_address = 1

\* C39: the scanner on the seekable base and the one on the non-seekable
\* base return the same blocks as long as both go on, and end the same way
\* with the same output.
C39_SeekableEquivalent ==
    /\ vfs.s.pc = "run" /\ vfs.d.pc = "run" => vfs.s.out = vfs.d.out
    /\ vfs.s.pc # "run" \/ vfs.d.pc # "run" => vfs.s.pc = vfs.d.pc /\ vfs.s.out = vfs.d.out

C32_AtMostMaxHolders ==
    Cardinality({t \in Lockers : mtx.th[t] = "holding"}) <= mtx.max

C34_ReturnsBelowMax ==
    ts.pc = "idle" /\ ts.n > 0 /\ ts.maxLbPerSec # 0 => ts.lbPerSec <= ts.maxLbPerSec

\* C34: a call returns with the measured rate at or below maxLbPerSec_ or
\* with maxSleepMs or more slept; what it has slept is a multiple of sleepMs
\* that the clock has passed; with maxLbPerSec_ = 0 it does not sleep or
\* touch the monitor; and every call returns.
C34_SleepsUntilBelowOrLimit ==
    /\ [](ts.pc = "idle" /\ ts.n > 0 /\ ts.maxLbPerSec # 0 =>
            ts.lbPerSec <= ts.maxLbPerSec \/ ts.total >= ts.maxSleepMs)
    /\ [](/\ ts.now - ts.began >= ts.total
          /\ ts.total < ts.maxSleepMs + (IF ts.sleepMs = 0 THEN 1 ELSE ts.sleepMs)
          /\ ts.sleepMs # 0 => ts.total % ts.sleepMs = 0
          /\ ts.sleepMs = 0 => ts.total = 0)
    /\ [](ts.maxLbPerSec = 0 => ts.pc = "idle" /\ ts.total = 0 /\ ts.now = ts.began
                                /\ ts.mon.deq = <<>>)
    /\ (ts.pc = "loop") ~> (ts.pc = "idle")
C34_Witness ==
    /\ ts.pc = "idle" /\ ts.n = 2 /\ ts.maxLbPerSec = 50
    /\ ts.total = 1000 /\ ts.sleepMs = 500 /\ ts.lbPerSec <= ts.maxLbPerSec

\* C35: with endLsid <= beginLsid, the unspecified bounds replaced by the
\* super block's oldest and written lsid, the run fails with no pack header
\* read; otherwise the first header is read at beginLsid, each further one
\* at the nextLogpackLsid of the header before it, every header passed has
\* the lsid it was read at, and a header with another lsid ends the run with
\* an error.
C35_VerifyWalk ==
    LET b == IF wv.cfgBegin = NotSpecified THEN wv.oldest ELSE wv.cfgBegin
        e == IF wv.cfgEnd = NotSpecified THEN wv.written ELSE wv.cfgEnd
        n == Len(wv.visited) IN
    /\ e <= b => wv.visited = <<>> /\ wv.pc \in {"start", "error"}
    /\ wv.pc = "error" /\ wv.err = "Invalid lsid range." => e <= b
    /\ n > 0 => wv.visited[1] = b /\ b < e
    /\ \A i \in 1..n :
        /\ wv.visited[i] < e
        /\ i > 1 => wv.visited[i] = wv.heads[i - 1].nextLogpackLsid
        /\ i < n => wv.heads[i].logpackLsid = wv.visited[i]
    /\ n > 0 /\ wv.heads[n].logpackLsid # wv.visited[n] =>
        wv.pc = "error" /\ wv.err = "wrong lsid"
    /\ wv.pc = "done" => ~(wv.lsid < e)
C35_Witness ==
    /\ wv.pc = "error" /\ wv.err = "wrong lsid"
    /\ wv.cfgBegin = NotSpecified /\ wv.oldest = 0
    /\ wv.visited = <<0, 2>>

====
